---- MODULE Spec2Model ----
(***************************************************************************)
(* Model of the proxy client's dispatchers (package client):               *)
(*   - the quorum dispatcher: stdQuorumer / quorumWorker / quorumResponse  *)
(*   - the read dispatcher:   ProxyDirectClient.firstResponse              *)
(*   - the streaming PUT:     standardObjectClient.putObject / putQuorumer *)
(* Timers (time.After) are modelled as events that may fire at any moment  *)
(* the code selects on them.  Unbuffered channel sends are rendezvous: one *)
(* action is the sender's send together with the receiver's case body.     *)
(***************************************************************************)
EXTENDS Integers, Sequences, FiniteSets, Bags, TLC

\* ---------------------------------------------------------------- bounds
MaxReplicas == 3
MaxHandoffs == 1
\* devices the handoff iterator of a read dispatch yields
MaxMoreNodes == 3
\* bytes of the source body of a PUT
MaxLen == 2
\* facade clients (requests), containers, facade calls, container versions
MaxClients == 2
MaxKeys == 2
MaxCalls == 3
MaxVersion == 2
\* storage policies of the policy list
MaxPolicies == 2
\* pieces of the raw query of a request to the S3 middleware
MaxQuery == 4
\* devices of the listing ring's partition
MaxDevices == 4

\* ------------------------------------------------------- program constants
StatusServiceUnavailable == 503
StatusInternalServerError == 500
NoResponse == 0
TransportError == -1

StatusNotFound == 404
StatusNotModified == 304
StatusPreconditionFailed == 412
StatusRequestedRangeNotSatisfiable == 416
\* mc.Set(key, ci, 30)
ContainerInfoTTL == 30
\* a nil *ContainerInfo
NoInfo == 0

\* statuses a backend answers with in this model
Statuses == {200, 201, 404, 500}
\* statuses an object server answers a read with in this model
ReadStatuses == {200, 404, 500}
\* what c.client.Do yields: a response with a status, or an error
BackendOutcomes == Statuses \cup {TransportError}

VARIABLES
    mode,                 \* which part runs: "quorum" (quorumResponse),
                          \* "first" (firstResponse), "put" (putObject),
                          \* "cache" (container calls), "object" (object calls),
                          \* "policy" (container PUT), "s3" (S3 middleware),
                          \* "stripe" (listing-update headers)
    replicaCount,         \* r.ReplicaCount(); len(q.devs) = len(q.workers)
    more,                 \* devices the shared handoff iterator q.more still yields
    wpc,                  \* quorumWorker.work: position of worker i
    wresp,                \* quorumWorker.response (status, NoResponse = nil)
    wdev,                 \* quorumWorker.work: requests worker i has started
                          \* (go qw.f), one per device it has tried
    wlast,                \* quorumWorker.work: status of the last resp worker i
                          \* received in its request loop (NoResponse: none)
    qpc,                  \* position of the dispatcher (quorumResponse/getResponse)
    iter,                 \* getResponse: loop variable i
    responses,            \* stdQuorumer.responses (statuses, arrival order)
    responseClassCounts,  \* stdQuorumer.responseClassCounts
    rsel,                 \* getResponse: index in responses of the chosen r (0: none)
    ret,                  \* what the dispatch returned to its caller
    devs,                 \* firstResponse: the shuffled primaries
    drawn,                \* firstResponse: devices handed to devToRequest, in order,
                          \* each with whether a request was sent to it
    requestCount,         \* firstResponse: loop variable
    internalErrors,       \* firstResponse: internalErrors
    fpc,                  \* firstResponse: position of the dispatcher
    att,                  \* firstResponse: the request goroutines (a bag)
    ppc,                  \* putObject: position of the coordinator
    writers,              \* stdQuorumer.writers (the workers whose writer it holds)
    wold,                 \* addWriter of worker i: the q.writers it has read
    wwriter,              \* quorumWorker.writer != nil
    src,                  \* putObject: the bytes of the source body
    copied,               \* common.Copy: bytes of src broadcast so far
    pipe,                 \* bytes written into worker i's writer (io.Pipe)
    pclosed,              \* worker i's writer has been closed
    lc,                   \* proxyClient.lc of each client: key -> *ContainerInfo
    mc,                   \* the shared cache (ring.MemcacheRing): key -> entry
    mcOn,                 \* mc != nil
    backend,              \* the container servers: key -> version of the container
    req,                  \* the facade call each client is in
    calls,                \* facade calls made so far
    policyList,           \* ProxyDirectClient.policyList
    headers,              \* PutContainer: the caller's headers
    policyIndex,          \* PutContainer: the local policyIndex
    kpc,                  \* PutContainer: position
    built,                \* PutContainer: the backend requests built, in order
    request,              \* s3AuthHandler.ServeHTTP: the request
    ctx,                  \* the request's ProxyContext (Authorize, S3Auth)
    nextCalls,            \* calls of s.next.ServeHTTP
    apc,                  \* s3AuthHandler.ServeHTTP: position
    devices,              \* addUpdateHeaders: the listing ring's devices
    reqHeader,            \* req.Header of the request built for worker index i
    updated               \* worker indexes whose request has been built

qvars == <<wpc, wresp, wdev, wlast, qpc, iter, responses, responseClassCounts, rsel>>
fvars == <<devs, drawn, requestCount, internalErrors, fpc, att>>
pvars == <<ppc, writers, wold, wwriter, src, copied, pipe, pclosed>>
cvars == <<lc, mc, mcOn, backend, req, calls>>
kvars == <<policyList, headers, policyIndex, kpc, built>>
avars == <<request, ctx, nextCalls, apc>>
uvars == <<devices, reqHeader, updated>>
vars == <<mode, replicaCount, more, ret, qvars, fvars, pvars, cvars, kvars, avars,
          uvars>>

Workers == 1..replicaCount

\* ------------------------------------------------------------- responses
None == [kind |-> "none", status |-> 0, line |-> 0]
\* ResponseStub(status, ...) returned at source line `line`
ResponseStub(status, line) == [kind |-> "stub", status |-> status, line |-> line]
\* a recorded backend response returned at source line `line`
Backend(status, line) == [kind |-> "backend", status |-> status, line |-> line]

\* mutant: the threshold rounded down instead of up
Quorum_Floor(R) == R \div 2

\* newQuorumer: q = int(math.Ceil(float64(r.ReplicaCount()) / 2.0))
Quorum(R) == (R + 1) \div 2

\* the request closure of quorumResponse: an error becomes a stub 500,
\* a response is captured with its status
makeRequest(outcome) ==
    IF outcome = TransportError THEN StatusInternalServerError ELSE outcome

\* mutant: 500 itself not taken for an error
IsErrorStatus_Above500(status) == status > 500 \/ status < 0

\* the test `resp.StatusCode >= 500 || resp.StatusCode < 0`
IsErrorStatus(status) == status >= 500 \/ status < 0

\* mutant: every response is tallied in its class
addResponse_TalliesAll(counts, status) ==
    [counts EXCEPT ![status \div 100] = @ + 1]

\* stdQuorumer.addResponse: the tally after recording resp
addResponse(counts, status) ==
    IF IsErrorStatus(status) THEN counts
    ELSE [counts EXCEPT ![status \div 100] = @ + 1]

\* getResponse, "see if quorum has already been met": the index of the first
\* recorded response whose class tally is >= q, 0 when there is none
QuorumMet(resps, counts, q) ==
    LET hits == {k \in 1..Len(resps) : counts[resps[k] \div 100] >= q}
    IN  IF hits = {} THEN 0 ELSE CHOOSE k \in hits : \A j \in hits : k <= j

\* mutant: the outstanding requests left out of the test
quorumPossible_NoOutstanding(counts, outstandingRequests, q) ==
    \E k \in DOMAIN counts : counts[k] >= q

\* getResponse, "bail out if quorum isn't possible"
quorumPossible(counts, outstandingRequests, q) ==
    \E k \in DOMAIN counts : counts[k] + outstandingRequests >= q

\* getResponse from the top of iteration i to its next select or return
RECURSIVE getResponseLoop(_, _, _, _, _)
getResponseLoop(i, n, resps, counts, q) ==
    IF i >= n
    THEN [pc |-> "returned", iter |-> i, rsel |-> 0,
          ret |-> ResponseStub(StatusServiceUnavailable, 208)]
    ELSE LET outstandingRequests == n - Len(resps)
             r == QuorumMet(resps, counts, q)
         IN  IF r # 0
             THEN IF n > Len(resps)
                  THEN [pc |-> "finalize", iter |-> i, rsel |-> r, ret |-> None]
                  ELSE [pc |-> "returned", iter |-> i, rsel |-> r,
                        ret |-> Backend(resps[r], 183)]
             ELSE IF ~quorumPossible(counts, outstandingRequests, q)
             THEN [pc |-> "returned", iter |-> i, rsel |-> 0,
                   ret |-> ResponseStub(StatusServiceUnavailable, 194)]
             ELSE IF outstandingRequests > 0
             THEN [pc |-> "select", iter |-> i, rsel |-> 0, ret |-> None]
             ELSE getResponseLoop(i + 1, n, resps, counts, q)

\* ------------------------------------------------------------ strings
\* a decimal string is the sequence of its characters
Digits == <<"0", "1", "2", "3", "4", "5", "6", "7", "8", "9">>
RECURSIVE FormatUint(_)
FormatUint(n) ==
    IF n < 10 THEN <<Digits[n + 1]>>
    ELSE FormatUint(n \div 10) \o <<Digits[(n % 10) + 1]>>
\* strconv.Itoa
Itoa(n) == IF n < 0 THEN <<"-">> \o FormatUint(-n) ELSE FormatUint(n)

\* -------------------------------------------------- container PUT inputs
\* the headers PutContainer reads or sets: X-Storage-Policy (a name, "" when
\* absent), X-Backend-Storage-Policy-Index and X-Backend-Storage-Policy-Default
\* (decimal strings, <<>> when absent)
NoHeaders == [policy |-> "", index |-> <<>>, default |-> <<>>]
\* no request at the S3 middleware
NoRequest == [Method |-> ""]
\* S3AuthInfo; by: "none" for a nil pointer, "prior" for one an earlier pass
\* stashed, "ServeHTTP" for one this pass stashed
S3AuthInfo(by, key, signature, str) ==
    [by |-> by, Key |-> key, Signature |-> signature, StringToSign |-> str]
\* a ProxyContext with no authorizer and no S3AuthInfo
NoContext == [Authorize |-> "none", S3Auth |-> S3AuthInfo("none", <<>>, <<>>, <<>>)]

\* ------------------------------------------------------------------ Init
\* the quorum dispatcher before quorumResponse runs (newQuorumer's fields)
QuorumNew ==
    /\ wpc = [i \in Workers |-> "new"]
    /\ wresp = [i \in Workers |-> NoResponse]
    /\ wdev = [i \in Workers |-> 0]
    /\ wlast = [i \in Workers |-> NoResponse]
    /\ qpc = "init"
    /\ iter = 0
    /\ responses = <<>>
    /\ responseClassCounts = [k \in 0..5 |-> 0]
    /\ rsel = 0

\* no read dispatch
FirstIdle ==
    /\ devs = <<>>
    /\ drawn = <<>>
    /\ requestCount = 0
    /\ internalErrors = 0
    /\ fpc = "idle"
    /\ att = EmptyBag

\* no streaming PUT
PutIdle ==
    /\ ppc = "idle"
    /\ writers = <<>>
    /\ wold = [i \in Workers |-> <<>>]
    /\ wwriter = [i \in Workers |-> FALSE]
    /\ src = <<>>
    /\ copied = 0
    /\ pipe = [i \in Workers |-> <<>>]
    /\ pclosed = [i \in Workers |-> FALSE]

Clients == 1..MaxClients
\* the container keys "container/<account>/<container>"
Keys == 1..MaxKeys
NoEntry == [ci |-> NoInfo, ttl |-> 0]
Idle == [op |-> "none", key |-> 0, pc |-> "idle", ci |-> NoInfo, err |-> FALSE,
         st |-> 0, lcHit |-> FALSE, mcRead |-> FALSE, mcHit |-> FALSE,
         head |-> FALSE, evicted |-> FALSE, sent |-> FALSE, resp |-> None]

\* no facade client
CacheIdle ==
    /\ lc = [c \in Clients |-> [k \in Keys |-> NoInfo]]
    /\ mc = [k \in Keys |-> NoEntry]
    /\ mcOn = FALSE
    /\ backend = [k \in Keys |-> 1]
    /\ req = [c \in Clients |-> Idle]
    /\ calls = 0

\* no container PUT
PolicyIdle ==
    /\ policyList = <<>>
    /\ headers = NoHeaders
    /\ policyIndex = -1
    /\ kpc = "idle"
    /\ built = <<>>

\* no request in the S3 middleware
S3Idle ==
    /\ request = NoRequest
    /\ ctx = NoContext
    /\ nextCalls = 0
    /\ apc = "idle"

\* a request header without the listing-update headers
NoUpdateHeaders == [set |-> FALSE, Host |-> <<>>, Device |-> <<>>]

\* no request with listing-update headers
StripeIdle ==
    /\ devices = <<>>
    /\ reqHeader = <<>>
    /\ updated = {}

Init ==
    /\ mode = "quorum"
    /\ StripeIdle
    /\ replicaCount \in 1..MaxReplicas
    /\ more \in 0..MaxHandoffs
    /\ ret = None
    /\ QuorumNew
    /\ FirstIdle
    /\ PutIdle
    /\ CacheIdle
    /\ PolicyIdle
    /\ S3Idle

\* --------------------------------------------------- quorum: dispatcher
\* quorumResponse: newQuorumer, q.start() (one worker per primary, each sends
\* its first request and selects), then getResponse up to its first select
quorumResponse ==
    /\ mode = "quorum"
    /\ qpc = "init"
    /\ wpc' = [i \in Workers |-> "select"]
    /\ wdev' = [i \in Workers |-> 1]
    /\ LET g == getResponseLoop(0, replicaCount, responses, responseClassCounts,
                                Quorum(replicaCount))
       IN  /\ qpc' = g.pc
           /\ iter' = g.iter
           /\ rsel' = g.rsel
           /\ ret' = g.ret
    /\ UNCHANGED <<mode, replicaCount, more, wresp, wlast, responses,
                   responseClassCounts>>
    /\ UNCHANGED <<fvars, pvars, cvars, kvars, avars, uvars>>

\* mutant: a worker out of handoffs keeps and publishes the error response
workResponse_PublishesError(i, outcome) ==
    /\ wpc[i] = "select"
    /\ LET status == makeRequest(outcome)
       IN  /\ wlast' = [wlast EXCEPT ![i] = status]
           /\ IF IsErrorStatus(status) /\ more > 0
              THEN /\ more' = more - 1
                   /\ wdev' = [wdev EXCEPT ![i] = @ + 1]
                   /\ UNCHANGED <<wpc, wresp>>
              ELSE /\ wresp' = [wresp EXCEPT ![i] = status]
                   /\ wpc' = [wpc EXCEPT ![i] = "publish"]
                   /\ UNCHANGED <<more, wdev>>
    /\ UNCHANGED <<mode, replicaCount, qpc, iter, responses, responseClassCounts,
                   rsel, ret>>
    /\ UNCHANGED <<fvars, pvars, cvars, kvars, avars, uvars>>

\* quorumWorker.work, case resp := <-oneResponse: the request to the worker's
\* current device ends with `outcome`
workResponse(i, outcome) ==
    /\ wpc[i] = "select"
    /\ LET status == makeRequest(outcome)
       IN  /\ wlast' = [wlast EXCEPT ![i] = status]
           /\ IF IsErrorStatus(status)
              THEN IF more > 0
                   THEN \* dev = qw.more.Next(): next request, to a handoff
                        /\ more' = more - 1
                        /\ wdev' = [wdev EXCEPT ![i] = @ + 1]
                        /\ UNCHANGED <<wpc, wresp>>
                   ELSE \* dev = nil: no writer, no response: work returns
                        /\ wpc' = [wpc EXCEPT ![i] = "done"]
                        /\ UNCHANGED <<more, wresp, wdev>>
              ELSE \* qw.response = resp, then qw.responses <- qw.response
                   /\ wresp' = [wresp EXCEPT ![i] = status]
                   /\ wpc' = [wpc EXCEPT ![i] = "publish"]
                   /\ UNCHANGED <<more, wdev>>
    /\ UNCHANGED <<mode, replicaCount, qpc, iter, responses, responseClassCounts,
                   rsel, ret>>
    /\ UNCHANGED <<fvars, pvars, cvars, kvars, avars, uvars>>

\* getResponse, case response := <-q.responsec of the main select, with worker
\* i's send qw.responses <- qw.response
selectResponse(i) ==
    /\ qpc = "select"
    /\ wpc[i] = "publish"
    /\ wpc' = [wpc EXCEPT ![i] = "done"]
    /\ LET resps == Append(responses, wresp[i])
           counts == addResponse(responseClassCounts, wresp[i])
           g == getResponseLoop(iter + 1, replicaCount, resps, counts,
                                Quorum(replicaCount))
       IN  /\ responses' = resps
           /\ responseClassCounts' = counts
           /\ qpc' = g.pc
           /\ iter' = g.iter
           /\ rsel' = g.rsel
           /\ ret' = g.ret
    /\ UNCHANGED <<mode, replicaCount, more, wresp>>
    /\ UNCHANGED <<fvars, pvars, cvars, kvars, avars, uvars>>
    /\ UNCHANGED <<wdev, wlast>>

\* mutant: the deadline is consumed without returning
selectTimeout_KeepWaiting ==
    /\ qpc = "select"
    /\ UNCHANGED vars

\* getResponse, case <-getResponseTimeout of the main select
selectTimeout ==
    /\ qpc = "select"
    /\ qpc' = "returned"
    /\ ret' = ResponseStub(StatusServiceUnavailable, 204)
    /\ UNCHANGED <<mode, replicaCount, more, wpc, wresp, iter, responses,
                   responseClassCounts, rsel>>
    /\ UNCHANGED <<fvars, pvars, cvars, kvars, avars, uvars>>
    /\ UNCHANGED <<wdev, wlast>>

\* getResponse, post-quorum loop, case resp := <-q.responsec
finalizeResponse(i) ==
    /\ qpc = "finalize"
    /\ wpc[i] = "publish"
    /\ wpc' = [wpc EXCEPT ![i] = "done"]
    /\ responses' = Append(responses, wresp[i])
    /\ responseClassCounts' = addResponse(responseClassCounts, wresp[i])
    /\ IF replicaCount > Len(responses')
       THEN UNCHANGED <<qpc, ret>>
       ELSE /\ qpc' = "returned"
            /\ ret' = Backend(responses[rsel], 183)
    /\ UNCHANGED <<mode, replicaCount, more, wresp, iter, rsel>>
    /\ UNCHANGED <<fvars, pvars, cvars, kvars, avars, uvars>>
    /\ UNCHANGED <<wdev, wlast>>

\* getResponse, post-quorum loop, case <-finalizeTimeout
finalizeTimeout ==
    /\ qpc = "finalize"
    /\ qpc' = "returned"
    /\ ret' = Backend(responses[rsel], 180)
    /\ UNCHANGED <<mode, replicaCount, more, wpc, wresp, iter, responses,
                   responseClassCounts, rsel>>
    /\ UNCHANGED <<fvars, pvars, cvars, kvars, avars, uvars>>
    /\ UNCHANGED <<wdev, wlast>>

Next ==
    \/ quorumResponse
    \/ \E i \in Workers, o \in BackendOutcomes : workResponse(i, o)
    \/ \E i \in Workers : selectResponse(i)
    \/ selectTimeout
    \/ \E i \in Workers : finalizeResponse(i)
    \/ finalizeTimeout

Spec == Init /\ [][Next]_vars

\* the dispatcher's goroutine runs and its timers fire; the workers and the
\* backends may be arbitrarily slow or never answer
FairDispatch ==
    /\ Spec
    /\ WF_vars(quorumResponse)
    /\ WF_vars(selectTimeout)
    /\ WF_vars(finalizeTimeout)

\* getResponse replayed on a whole arrival order: the responses of `order`
\* arrive one by one from position k on, the post-quorum window lets every
\* remaining one in, and the deadline fires once nothing more arrives
RECURSIVE representative(_, _, _, _, _, _)
representative(order, k, i, n, resps, counts) ==
    LET g == getResponseLoop(i, n, resps, counts, Quorum(n))
    IN  IF g.pc = "returned" THEN g.ret
        ELSE IF g.pc = "finalize" THEN Backend(resps[g.rsel], 180)
        ELSE IF k > Len(order) THEN ResponseStub(StatusServiceUnavailable, 204)
        ELSE representative(order, k + 1, g.iter + 1, n, Append(resps, order[k]),
                            addResponse(counts, order[k]))

\* the arrival orders of the responses of s
Orders(s) ==
    LET n == Len(s)
        perms == {p \in [1..n -> 1..n] : \A a, b \in 1..n : a # b => p[a] # p[b]}
    IN  {[k \in 1..n |-> s[p[k]]] : p \in perms}

\* ------------------------------------------------ read: firstResponse
Swap(s, a, b) == [s EXCEPT ![a] = s[b], ![b] = s[a]]

\* for i := range devs { j := rand.Intn(i + 1); devs[i], devs[j] = devs[j], devs[i] }
\* js[i] is the draw of rand.Intn at (1-based) position i, in 1..i
RECURSIVE shuffle(_, _, _)
shuffle(s, js, i) ==
    IF i > Len(s) THEN s ELSE shuffle(Swap(s, i, js[i]), js, i + 1)

\* mutant: every status but a 5xx is handed to the caller
terminalSuccess_Not5xx(status) == status \div 100 # 5

\* the statuses firstResponse returns to its caller at once
terminalSuccess(status) ==
    \/ status \div 100 = 2
    \/ status = StatusPreconditionFailed
    \/ status = StatusNotModified
    \/ status = StatusRequestedRangeNotSatisfiable

\* primaries are devices 1..replicaCount, handoffs the devices after them
IsHandoff(dev) == dev > replicaCount
HandoffsDrawn == Cardinality({k \in 1..Len(drawn) : IsHandoff(drawn[k].dev)})

\* mutant: the loop test written <= instead of <
maxRequests_OneMore(R) == R + 3

\* the bound of the loop `requestCount < int(r.ReplicaCount()+2)`
maxRequests(R) == R + 2

\* the request goroutines are anonymous: a bag of [pc, resp, closed], where
\* pc is "do" (inside c.client.Do), "send" (in the select on success/returned)
\* or "done", resp the response (NoResponse = nil), closed whether Body.Close ran
Goroutine(pc, resp, closed) == [pc |-> pc, resp |-> resp, closed |-> closed]
Move(bag, from, to) == (bag (-) SetToBag({from})) (+) SetToBag({to})

InitFirst ==
    /\ mode = "first"
    /\ StripeIdle
    /\ replicaCount \in 1..MaxReplicas
    /\ more \in 0..MaxMoreNodes
    /\ ret = None
    /\ QuorumNew
    /\ PutIdle
    /\ CacheIdle
    /\ PolicyIdle
    /\ S3Idle
    /\ \E js \in [1..replicaCount -> 1..replicaCount] :
          /\ \A i \in 1..replicaCount : js[i] <= i
          /\ devs = shuffle([i \in 1..replicaCount |-> i], js, 1)
    /\ drawn = <<>>
    /\ requestCount = 0
    /\ internalErrors = 0
    /\ fpc = "loop"
    /\ att = EmptyBag

\* firstResponse, one pass of the loop head: draw a device, build the request
\* (reqOk: devToRequest returned no error), start its goroutine, enter the select
firstRequest(reqOk) ==
    /\ fpc = "loop"
    /\ requestCount < maxRequests(replicaCount)
    /\ requestCount < Len(devs) \/ more > 0
    /\ LET dev == IF requestCount < Len(devs)
                  THEN devs[requestCount + 1]
                  ELSE replicaCount + HandoffsDrawn + 1
       IN  /\ drawn' = Append(drawn, [dev |-> dev, sent |-> reqOk])
           /\ more' = IF requestCount < Len(devs) THEN more ELSE more - 1
           /\ IF reqOk
              THEN /\ att' = att (+) SetToBag({Goroutine("do", NoResponse, FALSE)})
                   /\ fpc' = "select"
                   /\ UNCHANGED <<requestCount, internalErrors>>
              ELSE \* internalErrors++; continue
                   /\ internalErrors' = internalErrors + 1
                   /\ requestCount' = requestCount + 1
                   /\ UNCHANGED <<att, fpc>>
    /\ UNCHANGED <<mode, replicaCount, ret, devs>>
    /\ UNCHANGED <<qvars, pvars, cvars, kvars, avars, uvars>>

\* firstResponse, the loop ends (bound reached, or more.Next() returned nil):
\* the classification after the loop
firstClassify ==
    /\ fpc = "loop"
    /\ \/ requestCount >= maxRequests(replicaCount)
       \/ requestCount >= Len(devs) /\ more = 0
    /\ fpc' = "returned"
    /\ ret' = IF internalErrors >= replicaCount
              THEN ResponseStub(StatusServiceUnavailable, 336)
              ELSE ResponseStub(StatusNotFound, 338)
    /\ UNCHANGED <<mode, replicaCount, more, devs, drawn, requestCount,
                   internalErrors, att>>
    /\ UNCHANGED <<qvars, pvars, cvars, kvars, avars, uvars>>

\* the dispatcher is in its select and a goroutine is blocked in its send: the
\* receive happens before anything else reaches the channel
Rendezvous == fpc = "select" /\ \E g \in BagToSet(att) : g.pc = "send"

\* a request goroutine: c.client.Do(r) ends with `outcome` (on an error the
\* response is closed and set to nil) and the goroutine blocks in its select
clientDo(outcome) ==
    /\ mode = "first"
    /\ ~Rendezvous
    /\ BagIn(Goroutine("do", NoResponse, FALSE), att)
    /\ att' = Move(att, Goroutine("do", NoResponse, FALSE),
                   Goroutine("send", IF outcome = TransportError
                                     THEN NoResponse ELSE outcome, FALSE))
    /\ UNCHANGED <<mode, replicaCount, more, ret, devs, drawn, requestCount,
                   internalErrors, fpc>>
    /\ UNCHANGED <<qvars, pvars, cvars, kvars, avars, uvars>>

\* firstResponse, case resp = <-success, with the send of a goroutine holding resp
firstSuccess(resp) ==
    /\ fpc = "select"
    /\ BagIn(Goroutine("send", resp, FALSE), att)
    /\ IF resp # NoResponse /\ terminalSuccess(resp)
       THEN /\ ret' = Backend(resp, 324)
            /\ fpc' = "returned"
            /\ att' = Move(att, Goroutine("send", resp, FALSE),
                           Goroutine("done", resp, FALSE))
            /\ UNCHANGED <<requestCount, internalErrors>>
       ELSE /\ internalErrors' =
                  IF resp = NoResponse \/ resp \div 100 = 5
                  THEN internalErrors + 1 ELSE internalErrors
            /\ att' = Move(att, Goroutine("send", resp, FALSE),
                           Goroutine("done", resp, resp # NoResponse))
            /\ requestCount' = requestCount + 1
            /\ fpc' = "loop"
            /\ UNCHANGED ret
    /\ UNCHANGED <<mode, replicaCount, more, devs, drawn>>
    /\ UNCHANGED <<qvars, pvars, cvars, kvars, avars, uvars>>

\* firstResponse, case <-time.After(time.Second): the select waits for the timer
\* only while no goroutine is blocked in its send on success (a blocked sender
\* is received at once; a goroutine still inside Do is not on the channel)
firstTimeout ==
    /\ fpc = "select"
    /\ ~Rendezvous
    /\ requestCount' = requestCount + 1
    /\ fpc' = "loop"
    /\ UNCHANGED <<mode, replicaCount, more, ret, devs, drawn, internalErrors, att>>
    /\ UNCHANGED <<qvars, pvars, cvars, kvars, avars, uvars>>

\* mutant: the goroutine leaves on <-returned without closing the body
goroutineReturned_KeepsBody(resp) ==
    /\ fpc = "returned"
    /\ BagIn(Goroutine("send", resp, FALSE), att)
    /\ att' = Move(att, Goroutine("send", resp, FALSE),
                   Goroutine("done", resp, FALSE))
    /\ UNCHANGED <<mode, replicaCount, more, ret, devs, drawn, requestCount,
                   internalErrors, fpc>>
    /\ UNCHANGED <<qvars, pvars, cvars, kvars, avars, uvars>>

\* a request goroutine holding resp, case <-returned
goroutineReturned(resp) ==
    /\ fpc = "returned"
    /\ BagIn(Goroutine("send", resp, FALSE), att)
    /\ att' = Move(att, Goroutine("send", resp, FALSE),
                   Goroutine("done", resp, resp # NoResponse))
    /\ UNCHANGED <<mode, replicaCount, more, ret, devs, drawn, requestCount,
                   internalErrors, fpc>>
    /\ UNCHANGED <<qvars, pvars, cvars, kvars, avars, uvars>>

ReadOutcomes == ReadStatuses \cup {TransportError}
ReadResponses == ReadStatuses \cup {NoResponse}

NextFirst ==
    \/ \E reqOk \in BOOLEAN : firstRequest(reqOk)
    \/ firstClassify
    \/ \E o \in ReadOutcomes : clientDo(o)
    \/ \E resp \in ReadResponses : firstSuccess(resp)
    \/ firstTimeout
    \/ \E resp \in ReadResponses : goroutineReturned(resp)

SpecFirst == InitFirst /\ [][NextFirst]_vars

\* ------------------------------------------- streaming PUT: putObject
\* the source bodies: byte k of a body is k % 2, so that a byte lost,
\* repeated or out of order shows
Sources == {[k \in 1..n |-> k % 2] : n \in 0..MaxLen}
\* what c.client.Do yields for an object PUT when the backend answers without
\* reading the body
PutOutcomes == {201, 507, TransportError}
\* what it yields once the body is being read
FinalOutcomes == {201, TransportError}

InitPut ==
    /\ mode = "put"
    /\ StripeIdle
    /\ replicaCount \in 1..MaxReplicas
    /\ more \in 0..MaxHandoffs
    /\ ret = None
    /\ QuorumNew
    /\ FirstIdle
    /\ CacheIdle
    /\ PolicyIdle
    /\ S3Idle
    /\ ppc = "new"
    /\ writers = <<>>
    /\ wold = [i \in Workers |-> <<>>]
    /\ wwriter = [i \in Workers |-> FALSE]
    /\ src \in Sources
    /\ copied = 0
    /\ pipe = [i \in Workers |-> <<>>]
    /\ pclosed = [i \in Workers |-> FALSE]

\* putObject up to workerGroup.Wait() in putQuorumer.start: one worker per
\* primary, each sends its first request and selects
putObject ==
    /\ mode = "put"
    /\ ppc = "new"
    /\ ppc' = "wait"
    /\ wpc' = [i \in Workers |-> "select"]
    /\ wdev' = [i \in Workers |-> 1]
    /\ UNCHANGED <<mode, replicaCount, more, ret, wresp, wlast, qpc, iter,
                   responses, responseClassCounts, rsel>>
    /\ UNCHANGED <<writers, wold, wwriter, src, copied, pipe, pclosed>>
    /\ UNCHANGED <<fvars, cvars, kvars, avars, uvars>>

\* quorumWorker.work, case qw.writer = <-ready (the backend sent 100-continue,
\* putReader.Read handed the pipe's writer over), and the read of q.writers at
\* the start of addWriter
workReady(i) ==
    /\ mode = "put"
    /\ wpc[i] = "select"
    /\ wwriter' = [wwriter EXCEPT ![i] = TRUE]
    /\ wold' = [wold EXCEPT ![i] = writers]
    /\ wpc' = [wpc EXCEPT ![i] = "append"]
    /\ UNCHANGED <<mode, replicaCount, more, ret, wresp, qpc, iter, responses,
                   responseClassCounts, rsel>>
    /\ UNCHANGED <<ppc, writers, src, copied, pipe, pclosed>>
    /\ UNCHANGED <<fvars, cvars, kvars, avars, uvars>>
    /\ UNCHANGED <<wdev, wlast>>

\* stdQuorumer.addWriter, the store q.writers = append(<what was read>, writer),
\* then qw.wg.Done() and the worker's last select.  The workers call addWriter
\* from their own goroutines with no lock: the store may overwrite an append
\* another worker made since the read.
addWriter(i) ==
    /\ wpc[i] = "append"
    /\ writers' = Append(wold[i], i)
    /\ wold' = [wold EXCEPT ![i] = <<>>]
    /\ wpc' = [wpc EXCEPT ![i] = "await"]
    /\ UNCHANGED <<mode, replicaCount, more, ret, wresp, qpc, iter, responses,
                   responseClassCounts, rsel>>
    /\ UNCHANGED <<ppc, wwriter, src, copied, pipe, pclosed>>
    /\ UNCHANGED <<fvars, cvars, kvars, avars, uvars>>
    /\ UNCHANGED <<wdev, wlast>>

\* quorumWorker.work, last select, case qw.response = <-oneResponse: the
\* request of a worker that holds a writer ends with `outcome`
workFinalResponse(i, outcome) ==
    /\ wpc[i] = "await"
    /\ wresp' = [wresp EXCEPT ![i] = makeRequest(outcome)]
    /\ wpc' = [wpc EXCEPT ![i] = "publish"]
    /\ UNCHANGED <<mode, replicaCount, more, ret, qpc, iter, responses,
                   responseClassCounts, rsel>>
    /\ UNCHANGED pvars
    /\ UNCHANGED <<fvars, cvars, kvars, avars, uvars>>
    /\ UNCHANGED <<wdev, wlast>>

\* quorumWorker.work, last select, case <-responseTimeout: qw.writer.Close()
workResponseTimeout(i) ==
    /\ wpc[i] = "await"
    /\ pclosed' = [pclosed EXCEPT ![i] = TRUE]
    /\ wpc' = [wpc EXCEPT ![i] = "done"]
    /\ UNCHANGED <<mode, replicaCount, more, ret, wresp, qpc, iter, responses,
                   responseClassCounts, rsel>>
    /\ UNCHANGED <<ppc, writers, wold, wwriter, src, copied, pipe>>
    /\ UNCHANGED <<fvars, cvars, kvars, avars, uvars>>
    /\ UNCHANGED <<wdev, wlast>>

\* every worker has called qw.wg.Done()
BarrierReleased == \A i \in Workers : wpc[i] \in {"await", "publish", "done"}
\* stdQuorumer.responseCount
responseCount == Cardinality({i \in Workers : wresp[i] # NoResponse})
\* the elements of a sequence
Range(s) == {s[k] : k \in 1..Len(s)}

\* mutant: the copy is started whatever the number of writers and responses
putReady_NoCheck ==
    /\ ppc = "wait"
    /\ BarrierReleased
    /\ ppc' = "copy"
    /\ UNCHANGED <<mode, replicaCount, more, ret, qvars>>
    /\ UNCHANGED <<writers, wold, wwriter, src, copied, pipe, pclosed>>
    /\ UNCHANGED <<fvars, cvars, kvars, avars, uvars>>

\* mutant: the coordinator does not wait for the workers
putReady_NoBarrier ==
    /\ ppc = "wait"
    /\ IF Len(writers) + responseCount < Quorum(replicaCount)
       THEN /\ ppc' = "returned"
            /\ ret' = ResponseStub(StatusServiceUnavailable, 895)
       ELSE /\ ppc' = "copy"
            /\ UNCHANGED ret
    /\ UNCHANGED <<mode, replicaCount, more, qvars>>
    /\ UNCHANGED <<writers, wold, wwriter, src, copied, pipe, pclosed>>
    /\ UNCHANGED <<fvars, cvars, kvars, avars, uvars>>

\* putObject after workerGroup.Wait(): q.listWriters(), then the test
\* len(writers)+q.responseCount() < q.getQ()
putReady ==
    /\ ppc = "wait"
    /\ BarrierReleased
    /\ IF Len(writers) + responseCount < Quorum(replicaCount)
       THEN /\ ppc' = "returned"
            /\ ret' = ResponseStub(StatusServiceUnavailable, 895)
       ELSE /\ ppc' = "copy"
            /\ UNCHANGED ret
    /\ UNCHANGED <<mode, replicaCount, more, qvars>>
    /\ UNCHANGED <<writers, wold, wwriter, src, copied, pipe, pclosed>>
    /\ UNCHANGED <<fvars, cvars, kvars, avars, uvars>>

\* a Write on worker i's pipe goes through while the request reads its body
Reading(i) == wpc[i] = "await" /\ ~pclosed[i]

\* common.Copy(src, writers...), one byte of the source: read from src and
\* written to every writer of the list
putCopy ==
    /\ ppc = "copy"
    /\ copied < Len(src)
    /\ \A i \in Range(writers) : Reading(i)
    /\ copied' = copied + 1
    /\ pipe' = [i \in Workers |->
                  IF i \in Range(writers) THEN Append(pipe[i], src[copied + 1])
                  ELSE pipe[i]]
    /\ UNCHANGED <<mode, replicaCount, more, ret, qvars>>
    /\ UNCHANGED <<ppc, writers, wold, wwriter, src, pclosed>>
    /\ UNCHANGED <<fvars, cvars, kvars, avars, uvars>>

\* common.Copy returns an error: the read of src failed (srcErr), or a Write
\* found its pipe closed; putObject returns without closing the writers
putCopyFail(srcErr) ==
    /\ ppc = "copy"
    /\ Len(writers) > 0
    /\ \/ srcErr
       \/ copied < Len(src) /\ \E i \in Range(writers) : pclosed[i]
    /\ ppc' = "returned"
    /\ ret' = ResponseStub(StatusServiceUnavailable, 901)
    /\ UNCHANGED <<mode, replicaCount, more, qvars>>
    /\ UNCHANGED <<writers, wold, wwriter, src, copied, pipe, pclosed>>
    /\ UNCHANGED <<fvars, cvars, kvars, avars, uvars>>

\* the copy is over (or there was no writer): w.Close() for every writer of
\* the list, then q.getResponse(postPutTimeout) up to its first select
putClose ==
    /\ ppc = "copy"
    /\ copied = Len(src) \/ Len(writers) = 0
    /\ pclosed' = [i \in Workers |-> pclosed[i] \/ i \in Range(writers)]
    /\ ppc' = "getResponse"
    /\ LET g == getResponseLoop(0, replicaCount, responses, responseClassCounts,
                                Quorum(replicaCount))
       IN  /\ qpc' = g.pc
           /\ iter' = g.iter
           /\ rsel' = g.rsel
           /\ ret' = g.ret
    /\ UNCHANGED <<mode, replicaCount, more, wpc, wresp, responses,
                   responseClassCounts>>
    /\ UNCHANGED <<writers, wold, wwriter, src, copied, pipe>>
    /\ UNCHANGED <<fvars, cvars, kvars, avars, uvars>>
    /\ UNCHANGED <<wdev, wlast>>

NextPut ==
    \/ putObject
    \/ \E i \in Workers, o \in PutOutcomes : workResponse(i, o)
    \/ \E i \in Workers : workReady(i)
    \/ \E i \in Workers : addWriter(i)
    \/ \E i \in Workers, o \in FinalOutcomes : workFinalResponse(i, o)
    \/ \E i \in Workers : workResponseTimeout(i)
    \/ putReady
    \/ putCopy
    \/ \E srcErr \in BOOLEAN : putCopyFail(srcErr)
    \/ putClose
    \/ \E i \in Workers : selectResponse(i)
    \/ selectTimeout
    \/ \E i \in Workers : finalizeResponse(i)
    \/ finalizeTimeout

SpecPut == InitPut /\ [][NextPut]_vars

\* ------------------------------------- container-info cache: proxyClient
HeadStatuses == {204, 404, 503}
Mutations == {"PutContainer", "PostContainer", "DeleteContainer"}
\* what the mutating container calls of ProxyDirectClient answer: a quorum
\* response or the synthetic 503 of getResponse, and for PutContainer the 400
\* of a rejected X-Storage-Policy
MutateStatuses(op) ==
    IF op = "PutContainer" THEN {201, 400, 503} ELSE {204, 404}
\* the object calls of the facade, each newObjectClient(...).<op>(...)
ObjectOps == {"PutObject", "PostObject", "GetObject", "HeadObject", "DeleteObject"}
\* what a standardObjectClient's dispatch answers in this model
ObjectStatuses == {200, 404}
\* the return statement of erroringObjectClient's method for op
ErrorLine(op) ==
    CASE op = "PutObject" -> 712
      [] op = "PostObject" -> 715
      [] op = "GetObject" -> 718
      [] op = "HeadObject" -> 724
      [] op = "DeleteObject" -> 727
\* where GetContainerInfo returns to: the caller of the facade, or newObjectClient
After(op) == IF op \in ObjectOps THEN "client" ELSE "returned"

InitCache ==
    /\ mode = "cache"
    /\ StripeIdle
    /\ replicaCount = 1
    /\ more = 0
    /\ ret = None
    /\ QuorumNew
    /\ FirstIdle
    /\ PutIdle
    /\ PolicyIdle
    /\ S3Idle
    /\ lc \in [Clients -> [Keys -> {NoInfo, 1}]]
    /\ mcOn \in BOOLEAN
    /\ mc \in [Keys -> {NoEntry, [ci |-> 1, ttl |-> ContainerInfoTTL]}]
    /\ mcOn \/ mc = [k \in Keys |-> NoEntry]
    /\ backend = [k \in Keys |-> 1]
    /\ req = [c \in Clients |-> Idle]
    /\ calls = 0

\* client c may start a call
CanCall(c) ==
    /\ req[c].pc \in {"idle", "returned"}
    /\ calls < MaxCalls

\* GetContainerInfo up to the HEAD: the read of lc[key], then, when that is
\* nil and there is a shared cache, mc.GetStructured(key, &ci) (an error, which
\* a miss is, leaves ci nil); a ci found is returned, else HeadContainer is
\* called.  (The test sentinel NilContainerInfo is never put in the maps.)
lookup(c, op, k) ==
    LET lcHit == lc[c][k] # NoInfo
        mcRead == ~lcHit /\ mcOn
        mcHit == mcRead /\ mc[k] # NoEntry
        ci == IF lcHit THEN lc[c][k] ELSE IF mcHit THEN mc[k].ci ELSE NoInfo
    IN  [op |-> op, key |-> k,
         pc |-> IF ci = NoInfo THEN "head" ELSE After(op),
         ci |-> ci, err |-> FALSE, st |-> 0,
         lcHit |-> lcHit, mcRead |-> mcRead, mcHit |-> mcHit,
         head |-> ci = NoInfo, evicted |-> FALSE, sent |-> FALSE, resp |-> None]

\* a direct call of GetContainerInfo
GetContainerInfo(c, k) ==
    /\ mode = "cache"
    /\ CanCall(c)
    /\ req' = [req EXCEPT ![c] = lookup(c, "GetContainerInfo", k)]
    /\ calls' = calls + 1
    /\ UNCHANGED <<lc, mc, mcOn, backend>>
    /\ UNCHANGED <<mode, replicaCount, more, ret, qvars, fvars, pvars, kvars, avars, uvars>>

\* GetContainerInfo, the HEAD answers with `status`; parseOk: the three
\* numeric headers parse.  A non-2xx status or a parse error returns an error.
headContainer(c, status, parseOk) ==
    /\ req[c].pc = "head"
    /\ IF status \div 100 # 2 \/ ~parseOk
       THEN req' = [req EXCEPT ![c].pc = After(req[c].op), ![c].err = TRUE,
                               ![c].st = status]
       ELSE req' = [req EXCEPT ![c].pc = IF mcOn THEN "set" ELSE After(req[c].op),
                               ![c].ci = backend[req[c].key],
                               ![c].st = status]
    /\ UNCHANGED <<lc, mc, mcOn, backend, calls>>
    /\ UNCHANGED <<mode, replicaCount, more, ret, qvars, fvars, pvars, kvars, avars, uvars>>

\* mutant: the entry is stored without expiry
mcSet_NoTTL(c) ==
    /\ req[c].pc = "set"
    /\ mc' = [mc EXCEPT ![req[c].key] = [ci |-> req[c].ci, ttl |-> 0]]
    /\ req' = [req EXCEPT ![c].pc = After(req[c].op)]
    /\ UNCHANGED <<lc, mcOn, backend, calls>>
    /\ UNCHANGED <<mode, replicaCount, more, ret, qvars, fvars, pvars, kvars, avars, uvars>>

\* GetContainerInfo, mc.Set(key, ci, 30) and the return of ci
mcSet(c) ==
    /\ req[c].pc = "set"
    /\ mc' = [mc EXCEPT ![req[c].key] =
                 [ci |-> req[c].ci, ttl |-> ContainerInfoTTL]]
    /\ req' = [req EXCEPT ![c].pc = After(req[c].op)]
    /\ UNCHANGED <<lc, mcOn, backend, calls>>
    /\ UNCHANGED <<mode, replicaCount, more, ret, qvars, fvars, pvars, kvars, avars, uvars>>

\* proxyClient.<op> for an object: ProxyDirectClient.<op> calls newObjectClient,
\* which starts with GetContainerInfo (here up to its HEAD)
objectCall(c, op, k) ==
    /\ mode = "object"
    /\ CanCall(c)
    /\ req' = [req EXCEPT ![c] = lookup(c, op, k)]
    /\ calls' = calls + 1
    /\ UNCHANGED <<lc, mc, mcOn, backend>>
    /\ UNCHANGED <<mode, replicaCount, more, ret, qvars, fvars, pvars, kvars, avars, uvars>>

\* mutant: the error of GetContainerInfo is dropped
newObjectClient_IgnoresError(c, ringOk, status) ==
    /\ req[c].pc = "client"
    /\ IF ~ringOk
       THEN req' = [req EXCEPT ![c].pc = "returned",
                      ![c].resp = ResponseStub(StatusInternalServerError,
                                               ErrorLine(req[c].op))]
       ELSE req' = [req EXCEPT ![c].pc = "returned", ![c].sent = TRUE,
                      ![c].resp = Backend(status, 0)]
    /\ UNCHANGED <<lc, mc, mcOn, backend, calls>>
    /\ UNCHANGED <<mode, replicaCount, more, ret, qvars, fvars, pvars, kvars, avars, uvars>>

\* newObjectClient after GetContainerInfo, and the method called on what it
\* returns: an erroringObjectClient when GetContainerInfo failed or the hash
\* prefix or the object ring cannot be loaded (~ringOk), whose method returns
\* a stub 500; else a standardObjectClient, whose dispatch sends requests to
\* the object servers and answers with `status`
newObjectClient(c, ringOk, status) ==
    /\ req[c].pc = "client"
    /\ IF req[c].err \/ ~ringOk
       THEN req' = [req EXCEPT ![c].pc = "returned",
                      ![c].resp = ResponseStub(StatusInternalServerError,
                                               ErrorLine(req[c].op))]
       ELSE req' = [req EXCEPT ![c].pc = "returned", ![c].sent = TRUE,
                      ![c].resp = Backend(status, 0)]
    /\ UNCHANGED <<lc, mc, mcOn, backend, calls>>
    /\ UNCHANGED <<mode, replicaCount, more, ret, qvars, fvars, pvars, kvars, avars, uvars>>

\* proxyClient.PutContainer / PostContainer / DeleteContainer up to the
\* deferred call: c.pdc.<op> answers with `status` (a 2xx changed the container)
mutateContainer(c, op, k, status) ==
    /\ mode = "cache"
    /\ CanCall(c)
    /\ req' = [req EXCEPT ![c] =
                  [Idle EXCEPT !.op = op, !.key = k, !.pc = "invalidate",
                               !.st = status]]
    /\ calls' = calls + 1
    /\ backend' = IF status \div 100 = 2 /\ backend[k] < MaxVersion
                  THEN [backend EXCEPT ![k] = @ + 1] ELSE backend
    /\ UNCHANGED <<lc, mc, mcOn>>
    /\ UNCHANGED <<mode, replicaCount, more, ret, qvars, fvars, pvars, kvars, avars, uvars>>

\* mutant: only the local map is cleared
invalidateContainerInfo_LocalOnly(c) ==
    /\ req[c].pc = "invalidate"
    /\ lc' = [lc EXCEPT ![c][req[c].key] = NoInfo]
    /\ req' = [req EXCEPT ![c].pc = "returned",
                          ![c].evicted = lc[c][req[c].key] # NoInfo]
    /\ UNCHANGED <<mc, mcOn, backend, calls>>
    /\ UNCHANGED <<mode, replicaCount, more, ret, qvars, fvars, pvars, kvars, avars, uvars>>

\* the deferred proxyClient.invalidateContainerInfo, then the call returns
invalidateContainerInfo(c) ==
    /\ req[c].pc = "invalidate"
    /\ lc' = [lc EXCEPT ![c][req[c].key] = NoInfo]
    /\ mc' = IF mcOn THEN [mc EXCEPT ![req[c].key] = NoEntry] ELSE mc
    /\ req' = [req EXCEPT ![c].pc = "returned",
                          ![c].evicted = \/ lc[c][req[c].key] # NoInfo
                                         \/ mc[req[c].key] # NoEntry]
    /\ UNCHANGED <<mcOn, backend, calls>>
    /\ UNCHANGED <<mode, replicaCount, more, ret, qvars, fvars, pvars, kvars, avars, uvars>>

\* the shared cache drops an entry whose TTL has run out
mcExpire(k) ==
    /\ mode \in {"cache", "object"}
    /\ mc[k] # NoEntry
    /\ mc' = [mc EXCEPT ![k] = NoEntry]
    /\ UNCHANGED <<lc, mcOn, backend, req, calls>>
    /\ UNCHANGED <<mode, replicaCount, more, ret, qvars, fvars, pvars, kvars, avars, uvars>>

NextCache ==
    \/ \E c \in Clients, k \in Keys : GetContainerInfo(c, k)
    \/ \E c \in Clients, st \in HeadStatuses, parseOk \in BOOLEAN :
          headContainer(c, st, parseOk)
    \/ \E c \in Clients : mcSet(c)
    \/ \E c \in Clients, op \in Mutations, k \in Keys :
          \E st \in MutateStatuses(op) : mutateContainer(c, op, k, st)
    \/ \E c \in Clients : invalidateContainerInfo(c)
    \/ \E k \in Keys : mcExpire(k)

SpecCache == InitCache /\ [][NextCache]_vars

\* ------------------------------------------- object calls of the facade
InitObject ==
    /\ mode = "object"
    /\ StripeIdle
    /\ replicaCount = 1
    /\ more = 0
    /\ ret = None
    /\ QuorumNew
    /\ FirstIdle
    /\ PutIdle
    /\ PolicyIdle
    /\ S3Idle
    /\ lc \in [Clients -> [Keys -> {NoInfo, 1}]]
    /\ mcOn \in BOOLEAN
    /\ mc \in [Keys -> {NoEntry, [ci |-> 1, ttl |-> ContainerInfoTTL]}]
    /\ mcOn \/ mc = [k \in Keys |-> NoEntry]
    /\ backend = [k \in Keys |-> 1]
    /\ req = [c \in Clients |-> Idle]
    /\ calls = 0

NextObject ==
    \/ \E c \in Clients, op \in ObjectOps, k \in Keys : objectCall(c, op, k)
    \/ \E c \in Clients, st \in HeadStatuses, parseOk \in BOOLEAN :
          headContainer(c, st, parseOk)
    \/ \E c \in Clients : mcSet(c)
    \/ \E c \in Clients, ringOk \in BOOLEAN, st \in ObjectStatuses :
          newObjectClient(c, ringOk, st)
    \/ \E k \in Keys : mcExpire(k)

SpecObject == InitObject /\ [][NextObject]_vars

\* ------------------------------- container PUT: ProxyDirectClient.PutContainer
Names == <<"gold", "silver", "copper", "tin">>
PolicyNames == {Names[k] : k \in 1..MaxPolicies}
\* conf.Policy
Policy(name, index, deprecated, default) ==
    [Name |-> name, Index |-> index, Deprecated |-> deprecated, Default |-> default]
Policies ==
    {Policy(n, x, d, f) : n \in PolicyNames, x \in 0..(MaxPolicies - 1),
                          d \in BOOLEAN, f \in BOOLEAN}
\* conf.PolicyList: the names and the indexes differ, one policy is the default
PolicyLists ==
    UNION {{l \in [1..n -> Policies] :
              /\ \A a, b \in 1..n :
                    a # b => l[a].Name # l[b].Name /\ l[a].Index # l[b].Index
              /\ Cardinality({a \in 1..n : l[a].Default}) = 1} : n \in 1..MaxPolicies}
\* PolicyList.Default(): the index of the default policy
Default(list) == list[CHOOSE k \in 1..Len(list) : list[k].Default].Index

\* the X-Storage-Policy values a caller sends: none, a configured name, an
\* unknown one
PolicyHeaders == {""} \cup PolicyNames \cup {"bronze"}

InitPolicy ==
    /\ mode = "policy"
    /\ StripeIdle
    /\ replicaCount \in 1..MaxReplicas
    /\ more \in 0..MaxHandoffs
    /\ ret = None
    /\ QuorumNew
    /\ FirstIdle
    /\ PutIdle
    /\ CacheIdle
    /\ S3Idle
    /\ policyList \in PolicyLists
    /\ \E name \in PolicyHeaders, index \in {<<>>, <<"7">>} :
          headers = [policy |-> name, index |-> index, default |-> <<>>]
    /\ policyIndex = -1
    /\ kpc = "new"
    /\ built = [i \in Workers |-> <<>>]

\* the policy the loop over c.policyList stops at: the first of that name,
\* 0 when there is none
findPolicy(list, policyName) ==
    LET hits == {k \in 1..Len(list) : list[k].Name = policyName}
    IN  IF hits = {} THEN 0 ELSE CHOOSE k \in hits : \A j \in hits : k <= j

\* mutant: a deprecated policy is accepted
PutContainer_AllowsDeprecated ==
    /\ mode = "policy"
    /\ kpc = "new"
    /\ LET policyName == headers.policy
           k == findPolicy(policyList, policyName)
       IN  IF policyName # "" /\ k = 0
           THEN /\ ret' = ResponseStub(400, 516)
                /\ kpc' = "returned"
                /\ UNCHANGED policyIndex
           ELSE /\ policyIndex' = IF policyName # "" THEN policyList[k].Index ELSE -1
                /\ kpc' = "dispatch"
                /\ UNCHANGED ret
    /\ UNCHANGED <<mode, replicaCount, more, policyList, headers, built>>
    /\ UNCHANGED <<qvars, fvars, pvars, cvars, avars, uvars>>

\* PutContainer up to quorumResponse: the X-Storage-Policy name is resolved
PutContainer ==
    /\ mode = "policy"
    /\ kpc = "new"
    /\ LET policyName == headers.policy
           k == findPolicy(policyList, policyName)
       IN  IF policyName # "" /\ k = 0
           THEN /\ ret' = ResponseStub(400, 516)
                /\ kpc' = "returned"
                /\ UNCHANGED policyIndex
           ELSE IF policyName # "" /\ policyList[k].Deprecated
           THEN /\ ret' = ResponseStub(400, 519)
                /\ kpc' = "returned"
                /\ UNCHANGED policyIndex
           ELSE /\ policyIndex' = IF policyName # "" THEN policyList[k].Index ELSE -1
                /\ kpc' = "dispatch"
                /\ UNCHANGED ret
    /\ UNCHANGED <<mode, replicaCount, more, policyList, headers, built>>
    /\ UNCHANGED <<qvars, fvars, pvars, cvars, avars, uvars>>

\* mutant: the backend headers are not set over the caller's
containerHeaders_CopyOnly(hdrs, index, policyDefault) == hdrs

\* the request closure of PutContainer: the caller's headers are copied, then
\* X-Backend-Storage-Policy-Index and X-Backend-Storage-Policy-Default are set
containerHeaders(hdrs, index, policyDefault) ==
    [hdrs EXCEPT !.index = Itoa(index), !.default = Itoa(policyDefault)]

\* quorumResponse calls the closure for worker i: for its primary, and again
\* for each handoff the worker moves to
putContainerRequest(i) ==
    /\ kpc = "dispatch"
    /\ \/ built[i] = <<>> /\ UNCHANGED more
       \/ built[i] # <<>> /\ more > 0 /\ more' = more - 1
    /\ built' = [built EXCEPT ![i] =
                    Append(@, containerHeaders(headers, policyIndex,
                                               Default(policyList)))]
    /\ UNCHANGED <<mode, replicaCount, ret, policyList, headers, policyIndex, kpc>>
    /\ UNCHANGED <<qvars, fvars, pvars, cvars, avars, uvars>>

\* quorumResponse returns: a recorded response or its synthetic 503
putContainerReturn(status) ==
    /\ kpc = "dispatch"
    /\ kpc' = "returned"
    /\ ret' = IF status = StatusServiceUnavailable
              THEN ResponseStub(status, 524) ELSE Backend(status, 524)
    /\ UNCHANGED <<mode, replicaCount, more, policyList, headers, policyIndex, built>>
    /\ UNCHANGED <<qvars, fvars, pvars, cvars, avars, uvars>>

NextPolicy ==
    \/ PutContainer
    \/ \E i \in Workers : putContainerRequest(i)
    \/ \E st \in MutateStatuses("PutContainer") \ {400} : putContainerReturn(st)

SpecPolicy == InitPolicy /\ [][NextPolicy]_vars

\* ------------------------------------- S3 middleware: s3AuthHandler.ServeHTTP
\* A string is the sequence of its pieces (each piece a run of characters),
\* the empty string is <<>>.  Header names are the canonical ones net/http
\* stores: <<"X-Amz-", "Acl">> is X-Amz-Acl.
StatusForbidden == 403
S3Subresources == {"acl", "partNumber"}
\* the pieces in byte order (upper case sorts before lower case)
ByteOrder == <<"Acl", "Content-Md5", "Content-Type", "Date", "Meta-A", "X-Amz-",
               "acl", "partNumber">>
Rank(a) == CHOOSE k \in 1..Len(ByteOrder) : ByteOrder[k] = a
\* s <= t for strings made of ranked pieces, as sort.Strings compares them
RECURSIVE StringLeq(_, _)
StringLeq(s, t) ==
    IF s = <<>> THEN TRUE
    ELSE IF t = <<>> THEN FALSE
    ELSE IF s[1] # t[1] THEN Rank(s[1]) < Rank(t[1])
    ELSE StringLeq(Tail(s), Tail(t))
\* sort.Strings
SortStrings(seq) == SortSeq(seq, LAMBDA a, b : StringLeq(a, b) /\ a # b)

\* strings.ToLower on a header name
LowerPiece(a) ==
    CASE a = "X-Amz-" -> "x-amz-"
      [] a = "Acl" -> "acl"
      [] a = "Date" -> "date"
      [] a = "Meta-A" -> "meta-a"
      [] a = "Content-Md5" -> "content-md5"
      [] a = "Content-Type" -> "content-type"
ToLower(name) == [k \in 1..Len(name) |-> LowerPiece(name[k])]
\* strings.HasPrefix(s, "x-amz-")
HasAmzPrefix(s) == Len(s) >= 1 /\ s[1] = "x-amz-"

ContentMD5 == <<"Content-Md5">>
ContentType == <<"Content-Type">>
Date == <<"Date">>
XAmzDate == <<"X-Amz-", "Date">>
XAmzAcl == <<"X-Amz-", "Acl">>
XAmzMetaA == <<"X-Amz-", "Meta-A">>
HeaderNames == {ContentMD5, ContentType, Date, XAmzDate, XAmzAcl, XAmzMetaA}

\* http.Header.Get: the first value of the header, "" when it has none
Get(header, name) == IF header[name] = <<>> THEN <<>> ELSE header[name][1]

\* strings.TrimPrefix(s, "AWS ")
TrimPrefix(s) == IF s # <<>> /\ s[1] = "AWS " THEN Tail(s) ELSE s
\* strings.LastIndex(s, ":"): the position of the last ":" piece, 0 for none
LastIndex(s) ==
    LET at == {k \in 1..Len(s) : s[k] = ":"}
    IN  IF at = {} THEN 0 ELSE CHOOSE k \in at : \A j \in at : j <= k

\* strings.Split(s, "&") of a non-empty s
RECURSIVE Split(_, _)
Split(s, cur) ==
    IF s = <<>> THEN <<cur>>
    ELSE IF s[1] = "&" THEN <<cur>> \o Split(Tail(s), <<>>)
    ELSE Split(Tail(s), Append(cur, s[1]))
\* strings.Join(parts, "&")
RECURSIVE Join(_)
Join(parts) ==
    IF parts = <<>> THEN <<>>
    ELSE IF Len(parts) = 1 THEN parts[1]
    ELSE parts[1] \o <<"&">> \o Join(Tail(parts))
\* S3Subresources[v]
IsSubresource(v) == Len(v) = 1 /\ v[1] \in S3Subresources
RECURSIVE Concat(_)
Concat(seqs) == IF seqs = <<>> THEN <<>> ELSE seqs[1] \o Concat(Tail(seqs))

\* the keys of request.Header with the x-amz- prefix, after sort.Strings
akeys(header) ==
    LET keys == {k \in HeaderNames : header[k] # <<>> /\ HasAmzPrefix(ToLower(k))}
        some == CHOOSE q \in [1..Cardinality(keys) -> keys] :
                    \A k \in keys : \E j \in DOMAIN q : q[j] = k
    IN  SortStrings(some)

\* mutant: a sub-resource with a value is kept
signableQueryParts_WithValues(rawQuery) ==
    SortStrings(SelectSeq(Split(rawQuery, <<>>),
                          LAMBDA v : v # <<>> /\ v[1] \in S3Subresources))

\* the query parts that are signed, sorted
signableQueryParts(rawQuery) ==
    SortStrings(SelectSeq(Split(rawQuery, <<>>), IsSubresource))

\* ServeHTTP, "Setup the string to be signed": what buf holds at the end
stringToSign(r) ==
    LET nl == <<"\n">>
        amzLine(k) == Concat([j \in 1..Len(r.Header[k]) |->
                                 ToLower(k) \o <<":">> \o r.Header[k][j] \o nl])
        keys == akeys(r.Header)
        parts == signableQueryParts(r.RawQuery)
    IN  <<r.Method>> \o nl
        \o Get(r.Header, ContentMD5) \o nl
        \o Get(r.Header, ContentType) \o nl
        \o (IF Get(r.Header, XAmzDate) # <<>> THEN nl
            ELSE Get(r.Header, Date) \o nl)
        \o Concat([j \in 1..Len(keys) |-> amzLine(keys[j])])
        \o <<r.Path>>
        \o (IF r.RawQuery # <<>> /\ Len(parts) > 0
            THEN <<"?">> \o Join(parts) ELSE <<>>)

\* mutant: the installed authorizer lets the request in
denyAll_Allows(r) == <<TRUE, 200>>

\* the function ServeHTTP installs as ctx.Authorize on a malformed credential
denyAll(r) == <<FALSE, StatusForbidden>>

\* request.Form.Get(name): the parsed form's value, "" while Form is nil
FormGet(r, name) == IF r.Parsed THEN r.Query[name] ELSE <<>>

\* the requests: Before says whether the form was parsed before the
\* middleware ran (Parsed: whether request.Form is set now); Query holds the
\* form values AWSAccessKeyId and Signature, RawQuery the other pieces of the
\* raw query (a credential parameter is a token with a value, which the
\* sub-resource filter drops)
Request(method, auth, parsed, id, sig, header, path, rawQuery) ==
    [Method |-> method, Authorization |-> auth, Before |-> parsed,
     Parsed |-> parsed, Query |-> [AWSAccessKeyId |-> id, Signature |-> sig],
     Header |-> header, Path |-> path, RawQuery |-> rawQuery]
Header(md5, type, date, amzDate, acl, meta) ==
    (ContentMD5 :> md5) @@ (ContentType :> type) @@ (Date :> date)
    @@ (XAmzDate :> amzDate) @@ (XAmzAcl :> acl) @@ (XAmzMetaA :> meta)
\* strings of at most n pieces
Strings(pieces, n) == UNION {[1..k -> pieces] : k \in 0..n}

Authorizations ==
    {<<>>, <<"AWS ", "nocolon">>, <<"nocolon">>, <<"AWS ", "K", ":", "S">>,
     <<"K", ":", "S">>, <<"AWS ", "K", ":", "b", ":", "S">>, <<"AWS ", ":", "S">>,
     <<"AWS ", "K", ":">>, <<"AWS ">>}
\* requests that differ in their credentials
CredentialRequests ==
    {Request("GET", auth, parsed, id, sig,
             Header(<<>>, <<>>, << <<"date">> >>, amzDate, <<>>, <<>>),
             "/bucket/key", rawQuery) :
        auth \in Authorizations, parsed \in BOOLEAN,
        id \in {<<>>, <<"K">>, <<"K", ":", "S">>}, sig \in {<<>>, <<"S">>},
        amzDate \in {<<>>, << <<"amzdate">> >>},
        rawQuery \in {<<>>, <<"acl">>}}
\* requests with a well-formed Authorization that differ in what is signed
SignedRequests ==
    {Request(method, <<"AWS ", "K", ":", "S">>, FALSE, <<>>, <<>>,
             Header(md5, type, date, amzDate, acl, meta), "/bucket/key", rawQuery) :
        method \in {"GET", "PUT"},
        md5 \in {<<>>, << <<"md5">> >>},
        type \in {<<>>, << <<"text/plain">> >>},
        date \in {<<>>, << <<"date">> >>},
        amzDate \in {<<>>, << <<>> >>, << <<"amzdate">> >>},
        acl \in {<<>>, << <<"public-read">> >>},
        meta \in {<<>>, << <<"v1">>, <<"v2">> >>},
        rawQuery \in Strings(S3Subresources \cup {"=2", "&"}, MaxQuery)}

InitS3 ==
    /\ mode = "s3"
    /\ StripeIdle
    /\ replicaCount = 1
    /\ more = 0
    /\ ret = None
    /\ QuorumNew
    /\ FirstIdle
    /\ PutIdle
    /\ CacheIdle
    /\ PolicyIdle
    /\ \/ /\ request \in CredentialRequests
          /\ ctx \in {NoContext, [NoContext EXCEPT !.S3Auth.by = "prior"]}
       \/ /\ request \in SignedRequests
          /\ ctx = NoContext
    /\ nextCalls = 0
    /\ apc = "new"

\* s3AuthHandler.ServeHTTP, the whole handler
ServeHTTP ==
    /\ mode = "s3"
    /\ apc = "new"
    /\ LET header == request.Authorization
           authStr0 == IF header = <<>> THEN FormGet(request, "AWSAccessKeyId")
                       ELSE header
           authStr == TrimPrefix(authStr0)
           i == LastIndex(authStr)
           useForm == authStr0 = <<>> \/ authStr = <<>>
           key == IF useForm THEN request.Query.AWSAccessKeyId
                  ELSE SubSeq(authStr, 1, i - 1)
           signature == IF useForm THEN request.Query.Signature
                        ELSE SubSeq(authStr, i + 1, Len(authStr))
       IN  IF authStr0 # <<>> /\ i = 0
           THEN \* no ":": the denying authorizer, then the next handler
                /\ ctx' = [ctx EXCEPT !.Authorize = "denyAll"]
                /\ UNCHANGED request
           ELSE \* request.FormValue parses the form
                /\ request' = [request EXCEPT !.Parsed = @ \/ useForm]
                /\ IF key = <<>> \/ signature = <<>> \/ ctx.S3Auth.by # "none"
                   THEN UNCHANGED ctx
                   ELSE ctx' = [ctx EXCEPT !.S3Auth =
                                   S3AuthInfo("ServeHTTP", key, signature,
                                              stringToSign(request))]
    /\ nextCalls' = nextCalls + 1
    /\ apc' = "served"
    /\ UNCHANGED <<mode, replicaCount, more, ret>>
    /\ UNCHANGED <<qvars, fvars, pvars, cvars, kvars, uvars>>

NextS3 == ServeHTTP

SpecS3 == InitS3 /\ [][NextS3]_vars

\* ----------------------------------- listing-update headers: addUpdateHeaders
\* the devices a listing ring can hold: devices[k].Ip, .Port, .Device
Devices ==
    [Ip : {"10.0.0.1", "10.0.0.2"}, Port : {6001, 6002}, Device : {"sda", "sdb"}]
\* ring.GetNodes: up to MaxDevices distinct devices
DeviceLists ==
    {d \in UNION {[1..n -> Devices] : n \in 0..MaxDevices} :
        \A a, b \in 1..Len(d) : a # b => d[a] # d[b]}

InitStripe ==
    /\ mode = "stripe"
    /\ replicaCount \in 1..MaxReplicas
    /\ more = 0
    /\ ret = None
    /\ QuorumNew
    /\ FirstIdle
    /\ PutIdle
    /\ CacheIdle
    /\ PolicyIdle
    /\ S3Idle
    /\ devices \in DeviceLists
    /\ reqHeader = [i \in 0..(replicaCount - 1) |-> NoUpdateHeaders]
    /\ updated = {}

\* strings.TrimRight(s, ",")
RECURSIVE TrimRight(_)
TrimRight(s) ==
    IF s # <<>> /\ s[Len(s)] = "," THEN TrimRight(SubSeq(s, 1, Len(s) - 1)) ELSE s

\* fmt.Sprintf("%s:%d,", devices[i].Ip, devices[i].Port); devices[i] of the
\* code is list[i + 1]
hostItem(dev) == <<dev.Ip, ":">> \o Itoa(dev.Port) \o <<",">>

\* the loop for ; i < len(devices); i += replicas of addUpdateHeaders
RECURSIVE stripe(_, _, _, _, _)
stripe(list, i, replicas, host, device) ==
    IF i < Len(list)
    THEN stripe(list, i + replicas, replicas, host \o hostItem(list[i + 1]),
                device \o <<list[i + 1].Device, ",">>)
    ELSE [Host |-> host, Device |-> device]

\* mutant: the loop advances by one device
addUpdateHeaders_NoStride(hdr, list, i, replicas) ==
    IF i < Len(list)
    THEN LET r == stripe(list, i, 1, <<>>, <<>>)
         IN  [set |-> TRUE, Host |-> TrimRight(r.Host), Device |-> TrimRight(r.Device)]
    ELSE hdr

\* addUpdateHeaders(prefix, headers, devices, i, replicas): the -Host and
\* -Device headers of `headers` afterwards
addUpdateHeaders(hdr, list, i, replicas) ==
    IF i < Len(list)
    THEN LET r == stripe(list, i, replicas, <<>>, <<>>)
         IN  [set |-> TRUE, Host |-> TrimRight(r.Host), Device |-> TrimRight(r.Device)]
    ELSE hdr

\* the request closure of a listing-updating write builds the request of
\* worker index i
updateRequest(i) ==
    /\ mode = "stripe"
    /\ i \notin updated
    /\ reqHeader' = [reqHeader EXCEPT
                       ![i] = addUpdateHeaders(@, devices, i, replicaCount)]
    /\ updated' = updated \cup {i}
    /\ UNCHANGED devices
    /\ UNCHANGED <<mode, replicaCount, more, ret, qvars, fvars, pvars, cvars, kvars,
                   avars>>

NextStripe == \E i \in 0..(replicaCount - 1) : updateRequest(i)

SpecStripe == InitStripe /\ [][NextStripe]_vars

\* =============================================================== claims
Returned == qpc = "returned"
IsStub503(r) == r.kind = "stub" /\ r.status = StatusServiceUnavailable
\* worker i has returned without a usable response: every device it tried
\* answered 5xx or failed, or its final response is a 5xx
OnlyErrors(i) == wpc[i] = "done" /\ (wresp[i] = NoResponse \/ wresp[i] >= 500)
\* the tally of class k reaches ceil(replicaCount / 2)
ReachesQuorum(k) == 2 * responseClassCounts[k] >= replicaCount
ByDeadline == ret.line = 204
ZeroCounts == [k \in 0..5 |-> 0]

\* C1: whatever the replica count and the responses, getResponse returns a
\* synthetic 503 or a recorded backend response whose status class has, at
\* the moment of return, a tally >= ceil(R/2).
C1_QuorumOrStub ==
    Returned =>
        \/ IsStub503(ret)
        \/ /\ ret.kind = "backend"
           /\ rsel \in 1..Len(responses)
           /\ ret.status = responses[rsel]
           /\ ReachesQuorum(ret.status \div 100)

C1_Witness ==
    /\ Returned
    /\ replicaCount = 3
    /\ ret.kind = "backend"
    /\ Len(responses) = 3

\* C2: after each recorded response, the last worker's included, if some class
\* tally is >= q and the overall deadline has not fired, the dispatcher returns
\* a backend response of a class whose tally is >= q, not a synthetic 503.
C2_QuorumAfterEveryResponse ==
    (Returned /\ ~ByDeadline /\ \E k \in 0..5 : ReachesQuorum(k)) =>
        /\ ret.kind = "backend"
        /\ ReachesQuorum(ret.status \div 100)

\* C3: with one replica, a dispatch whose single worker obtains a 2xx returns
\* that 2xx.
C3_SingleReplica2xx ==
    (Returned /\ ~ByDeadline /\ replicaCount = 1 /\ wresp[1] \div 100 = 2) =>
        /\ ret.kind = "backend"
        /\ ret.status = wresp[1]

\* C4: with three replicas, when two workers obtain responses of one non-5xx
\* class and the third obtains only 5xx, the response returned (the overall
\* deadline not having fired first) is of that class, and the tally at return
\* is 2 for that class and 0 for every other.
C4_TwoAgreeOneFails ==
    \A c \in 1..4 :
        (/\ Returned /\ ~ByDeadline /\ replicaCount = 3
         /\ \E i, j, k \in Workers :
               /\ i # j /\ i # k /\ j # k
               /\ wresp[i] \div 100 = c
               /\ wresp[j] \div 100 = c
               /\ OnlyErrors(k))
        => /\ ret.kind = "backend"
           /\ ret.status \div 100 = c
           /\ responseClassCounts = [ZeroCounts EXCEPT ![c] = 2]

C4_Witness ==
    /\ Returned
    /\ replicaCount = 3
    /\ ret.kind = "backend" /\ ret.status = 404
    /\ responses = <<404, 404>>
    /\ \E k \in Workers : OnlyErrors(k)

\* one worker holds a 200, the two others have given up on 5xx
OneGoodOfThree ==
    /\ Returned
    /\ replicaCount = 3
    /\ \E i \in Workers :
          /\ wresp[i] = 200
          /\ \A j \in Workers \ {i} : OnlyErrors(j)

\* C5 as stated: with three replicas, one 200 and two workers with only 5xx,
\* the representative is the 200.
C5_OneGoodIsReturned ==
    (OneGoodOfThree /\ responses = <<200>>) =>
        (ret.kind = "backend" /\ ret.status = 200)

\* C5 amended: with three replicas, one 200 and two workers with only 5xx,
\* class 2 tallies 1 < q = 2 and the dispatch returns a synthetic 503.
C5_OneGoodIsNoQuorum == OneGoodOfThree => IsStub503(ret)

C5_Witness == OneGoodOfThree /\ responses = <<200>> /\ IsStub503(ret)

\* C6: a non-streaming dispatch in which every primary and every handoff
\* answered 5xx or failed returns a synthetic 503 (R = 1 and R = 3 included).
C6_AllErrors503 ==
    (Returned /\ \A i \in Workers : OnlyErrors(i)) => IsStub503(ret)

C6_Witness ==
    /\ Returned
    /\ replicaCount = 3
    /\ more = 0
    /\ \A i \in Workers : OnlyErrors(i)
    /\ IsStub503(ret)

\* every worker has returned, so `responses` is a whole arrival order of the
\* responses the workers ended with
AllDelivered == \A i \in Workers : wpc[i] = "done"
Outcome(r) == <<r.kind, r.status \div 100>>

\* C7: the representative does not depend on the arrival order: for the
\* responses the workers ended with, every arrival order yields the same
\* outcome (here for odd R, and comparing only 503-stub or status class).
C7_OrderIndependent ==
    (Returned /\ AllDelivered /\ replicaCount % 2 = 1) =>
        \A order \in Orders(responses) :
            Outcome(representative(order, 1, 0, replicaCount, <<>>, ZeroCounts))
                = Outcome(ret)

\* C8: once the dispatch has returned, every worker goroutine terminates: when
\* nothing can happen any more, no worker is left blocked on its send.
C8_WorkersTerminate ==
    Returned => (AllDelivered \/ ENABLED Next)

\* C9: a non-streaming dispatch returns, whichever workers never deliver, and
\* returns one response only.
C9_ReturnsOnce ==
    /\ <>(Returned /\ ret # None)
    /\ [][Returned => (qpc' = "returned" /\ ret' = ret)]_vars

C9_Witness ==
    /\ Returned
    /\ ByDeadline
    /\ IsStub503(ret)
    /\ \E i \in Workers : wpc[i] = "select"

RequestsSent == BagCardinality(att)

\* C10: a read dispatch sends at most replicaCount + 2 requests, to the
\* shuffled primaries in order and then to the handoffs in iterator order, and
\* stops early only when the handoff iterator is exhausted.
C10_AtMostRPlus2 ==
    mode = "first" =>
        /\ RequestsSent <= replicaCount + 2
        /\ RequestsSent = Cardinality({k \in 1..Len(drawn) : drawn[k].sent})
        /\ Len(drawn) <= replicaCount + 2
        /\ \A k \in 1..Len(drawn) :
              drawn[k].dev = IF k <= replicaCount THEN devs[k] ELSE k
        /\ more >= 0
        /\ (fpc = "returned" /\ ret.kind = "stub" /\ Len(drawn) < replicaCount + 2)
              => (more = 0 /\ Len(drawn) >= replicaCount)

C10_Witness ==
    /\ fpc = "returned"
    /\ replicaCount = 3
    /\ RequestsSent = 5
    /\ more = 1

\* ---------------------------------------------------- firstResponse
\* the number of goroutines of the bag that satisfy P
Count(P(_)) == BagCardinality([g \in {x \in BagToSet(att) : P(x)} |-> att[g]])
Finished(g) == g.pc = "done"
\* c.client.Do has returned an error or a 5xx
Failed(g) == g.pc # "do" /\ (g.resp = NoResponse \/ g.resp \div 100 = 5)
\* devices for which devToRequest returned an error: no request was sent
BuildFailures == Cardinality({k \in 1..Len(drawn) : ~drawn[k].sent})
ClassifiedStub == fpc = "returned" /\ ret.kind = "stub"

\* C11: when a read dispatch returns a synthetic response, every request it
\* sent has finished, and the response is 503 exactly when at least
\* replicaCount of the attempts failed (no response or a 5xx), 404 otherwise.
C11_ClassifiesEveryAttempt ==
    ClassifiedStub =>
        /\ \A g \in BagToSet(att) : Finished(g)
        /\ ret.status \in {StatusServiceUnavailable, StatusNotFound}
        /\ (ret.status = StatusServiceUnavailable)
              <=> (Count(Failed) + BuildFailures >= replicaCount)

\* a goroutine is blocked in its send with a response firstResponse would return
SuccessReady ==
    \E g \in BagToSet(att) :
        /\ g.pc = "send"
        /\ g.resp # NoResponse
        /\ (g.resp \div 100 = 2 \/ g.resp \in {StatusNotModified,
               StatusPreconditionFailed, StatusRequestedRangeNotSatisfiable})
\* C12: a terminal success that is ready for delivery before a wait of the
\* dispatcher ends is returned: once such a response is blocked on the channel
\* between two waits, a dispatch that waits again never returns a synthetic
\* 404/503.
C12_ReadySuccessIsReturned ==
    []((fpc = "loop" /\ SuccessReady) =>
          [](fpc = "select" => [](~ClassifiedStub)))

\* C13: firstResponse returns a backend response of status 2xx, 304, 412 or
\* 416 whose body it has not closed, or a synthetic 503/404; a response of any
\* other status is closed and never returned.
C13_OnlyTerminalSuccessOrStub ==
    /\ fpc = "returned" =>
          \/ /\ ret.kind = "stub"
             /\ ret.status \in {StatusServiceUnavailable, StatusNotFound}
          \/ /\ ret.kind = "backend"
             /\ \/ ret.status \div 100 = 2
                \/ ret.status \in {StatusNotModified, StatusPreconditionFailed,
                                   StatusRequestedRangeNotSatisfiable}
             /\ BagIn(Goroutine("done", ret.status, FALSE), att)
    /\ \A g \in BagToSet(att) :
          (g.pc = "done" /\ g.resp \in {404, 500}) => g.closed

C13_Witness ==
    /\ fpc = "returned"
    /\ ret = Backend(200, 324)
    /\ BagIn(Goroutine("done", 404, TRUE), att)
    /\ BagIn(Goroutine("done", 500, TRUE), att)

\* the goroutines run, c.client.Do returns (the client has a timeout) and the
\* dispatcher's loop and timers advance
FairFirst ==
    /\ SpecFirst
    /\ WF_vars(NextFirst)

\* the response of g is held open
Live(g) == g.resp # NoResponse /\ g.pc # "do" /\ ~g.closed

\* C14: after firstResponse returns, every outstanding goroutine terminates
\* (none stays blocked on success), and the only response whose body is left
\* open is the one returned to the caller.
C14_NoLiveBodyAfterReturn ==
    /\ (fpc = "returned") ~> (\A g \in BagToSet(att) : Finished(g))
    /\ [](\A g \in BagToSet(att) :
             (Finished(g) /\ Live(g)) =>
                 /\ fpc = "returned"
                 /\ ret = Backend(g.resp, 324)
                 /\ att[g] = 1)

C14_Witness ==
    /\ fpc = "returned"
    /\ ret.kind = "backend"
    /\ \A g \in BagToSet(att) : Finished(g)
    /\ BagIn(Goroutine("done", 200, TRUE), att)
    /\ BagIn(Goroutine("done", 200, FALSE), att)

\* ------------------------------------------------------- streaming PUT
\* the coordinator has passed the start barrier
PastBarrier == ppc \in {"copy", "getResponse", "returned"}
\* the workers that reached WRITING (received a writer on ready)
Writing == {i \in Workers : wwriter[i]}
\* putObject has returned
PutReturned == ppc = "returned" \/ (ppc = "getResponse" /\ qpc = "returned")

\* C15: after the start barrier, the writers the coordinator broadcasts to are
\* exactly the writers of the workers that reached WRITING, each once, and no
\* worker whose device answered before reading the body is among them.
C15_WritersAreTheReadySet ==
    PastBarrier =>
        /\ Range(writers) = Writing
        /\ Len(writers) = Cardinality(Writing)
        /\ \A i \in Range(writers) : wold[i] = <<>> /\ wpc[i] # "select"

\* C16: a writer of the ready set is closed only after it has received the
\* whole source, byte for byte in input order.
C16_WholeSourceBeforeClose ==
    \A i \in Range(writers) : pclosed[i] => pipe[i] = src

\* two workers hold a writer and the third has given up on 5xx answers
TwoWritingOneFailed ==
    /\ replicaCount = 3
    /\ Cardinality(Writing) = 2
    /\ \A k \in Workers \ Writing : wpc[k] = "done" /\ wresp[k] = NoResponse

\* C17: with R = 3, two workers in WRITING and the third device failed with a
\* 5xx before 100-continue, the readiness check passes (the copy proceeds),
\* and once both writers are closed after the whole body and both backends
\* have answered 201, putObject (the deadline not having fired) returns 201.
C17_TwoWritersReturn201 ==
    (TwoWritingOneFailed /\ PastBarrier) =>
        /\ ret # ResponseStub(StatusServiceUnavailable, 895)
        /\ (/\ PutReturned
            /\ ~ByDeadline
            /\ \A i \in Writing :
                  pclosed[i] /\ pipe[i] = src /\ wresp[i] = 201 /\ wpc[i] = "done")
           => (ret.kind = "backend" /\ ret.status = 201)

\* every worker has given up: it holds neither a writer nor a response
AllFailed == \A i \in Workers : wpc[i] = "done" /\ ~wwriter[i] /\ wresp[i] = NoResponse

\* the goroutines run, c.client.Do returns and the timers fire
FairPut ==
    /\ SpecPut
    /\ WF_vars(NextPut)

\* C18: with finitely many handoffs, the workers leave their request loops
\* (the start barrier is released), and when every device answered 5xx or
\* failed, putObject returns a synthetic 503 from the readiness check without
\* having read a byte of the source.
C18_AllFailReturns503 ==
    /\ (ppc = "wait") ~> BarrierReleased
    /\ (ppc = "wait" /\ AllFailed) ~> (ppc = "returned")
    /\ [](more >= 0)
    /\ []((AllFailed /\ PastBarrier) =>
             /\ ppc = "returned"
             /\ ret = ResponseStub(StatusServiceUnavailable, 895)
             /\ copied = 0
             /\ \A i \in Workers : pipe[i] = <<>>)

C18_Witness ==
    /\ replicaCount = 3
    /\ more = 0
    /\ AllFailed
    /\ ppc = "returned"
    /\ ret = ResponseStub(StatusServiceUnavailable, 895)
    /\ Len(src) = 2

\* ------------------------------------------------------ response tally
\* the recorded responses of status class k
Recorded(k) == {j \in 1..Len(responses) : responses[j] \div 100 = k}

\* C22: at every point of a dispatch, for k in 0..4 the tally of class k is
\* the number of recorded responses with status/100 = k, the tally of class 5
\* is 0, and a recorded 5xx response counts as arrived (it lowers the
\* outstanding count replicaCount - len(responses)) without being tallied.
C22_TallyCountsNon5xx ==
    /\ \A k \in 0..4 : responseClassCounts[k] = Cardinality(Recorded(k))
    /\ responseClassCounts[5] = 0
    /\ \A j \in 1..Len(responses) : responses[j] \div 100 \in 0..5
    /\ Len(responses) <= replicaCount
    /\ Len(responses) =
          Cardinality(Recorded(5)) + Cardinality(UNION {Recorded(k) : k \in 0..4})

C22_Witness ==
    /\ replicaCount = 3
    /\ Len(responses) = 3
    /\ Cardinality(Recorded(5)) = 1
    /\ Cardinality(Recorded(2)) = 2
    /\ responseClassCounts[2] = 2

\* the workers that can still deliver a response: in their request loop, or
\* holding a response they have not yet handed over
CanDeliver == {i \in Workers : wpc[i] \in {"select", "append", "await", "publish"}}
\* no status class can reach the quorum any more
QuorumImpossible ==
    \A k \in DOMAIN responseClassCounts :
        responseClassCounts[k] + Cardinality(CanDeliver) < Quorum(replicaCount)

\* C28: when a response is recorded and, for every class, the tally plus the
\* number of workers that can still deliver is below q, the quorum dispatcher
\* returns a stub 503 in that step (not at the 30 s deadline), workers that
\* ran out of handoffs without a non-5xx response included.
C28_ImpossibleReturnsAtOnce ==
    [][(mode = "quorum" /\ Len(responses') = Len(responses) + 1 /\ QuorumImpossible')
          => /\ qpc' = "returned"
             /\ ret' \in {ResponseStub(StatusServiceUnavailable, 194),
                          ResponseStub(StatusServiceUnavailable, 208)}]_vars

\* ------------------------------------------------ container-info cache
\* client c's mutating facade call returns in this step
MutationReturns(c) ==
    /\ req[c].op \in Mutations
    /\ req[c].pc = "invalidate"
    /\ req'[c].pc = "returned"

\* C19: when proxyClient.PutContainer, PostContainer or DeleteContainer on a
\* container returns, whatever the status, the client's local map and the
\* shared cache hold no entry under that container's key, and the entries of
\* the other containers (and the other clients' maps) are as before.
C19_MutationEvicts ==
    [][\A c \in Clients :
          MutationReturns(c) =>
              LET k == req[c].key
              IN  /\ lc'[c][k] = NoInfo
                  /\ mc'[k] = NoEntry
                  /\ \A k2 \in Keys \ {k} :
                        lc'[c][k2] = lc[c][k2] /\ mc'[k2] = mc[k2]
                  /\ \A c2 \in Clients \ {c} : lc'[c2] = lc[c2]]_vars

C19_Witness ==
    \E c \in Clients, k2 \in Keys :
        /\ req[c].pc = "returned"
        /\ req[c].op = "PutContainer"
        /\ req[c].st = 400
        /\ req[c].evicted
        /\ mcOn
        /\ lc[c][req[c].key] = NoInfo
        /\ mc[req[c].key] = NoEntry
        /\ k2 # req[c].key
        /\ lc[c][k2] # NoInfo
        /\ mc[k2] # NoEntry

\* client c's GetContainerInfo returns an info in this step
InfoReturns(c) ==
    /\ req[c].op = "GetContainerInfo"
    /\ req[c].pc # "returned"
    /\ req'[c].pc = "returned"
    /\ ~req'[c].err

\* C20: GetContainerInfo consults the local map, then the shared cache, then
\* the backend: a local hit reads neither the shared cache nor the backend, a
\* shared hit sends no HEAD, a HEAD is sent only after a miss in both, and an
\* info obtained by HEAD is stored in the shared cache under the container's
\* key with TTL 30 in the step that returns it.
C20_TiersInOrder ==
    /\ [](\A c \in Clients :
             req[c].op = "GetContainerInfo" =>
                 /\ req[c].lcHit =>
                       /\ ~req[c].mcRead /\ ~req[c].head
                       /\ req[c].pc = "returned"
                       /\ req[c].ci = lc[c][req[c].key]
                 /\ req[c].mcHit =>
                       /\ ~req[c].head
                       /\ req[c].pc = "returned"
                       /\ req[c].ci # NoInfo
                 /\ req[c].head =>
                       /\ ~req[c].lcHit
                       /\ mcOn => (req[c].mcRead /\ ~req[c].mcHit))
    /\ [][\A c \in Clients :
             (InfoReturns(c) /\ req[c].head /\ mcOn) =>
                 /\ mc'[req[c].key] = [ci |-> req'[c].ci, ttl |-> ContainerInfoTTL]
                 /\ \A k2 \in Keys \ {req[c].key} : mc'[k2] = mc[k2]]_vars

C20_Witness ==
    \E c1, c2 \in Clients :
        /\ c1 # c2
        /\ req[c1].op = "GetContainerInfo" /\ req[c1].pc = "returned"
        /\ req[c1].head /\ ~req[c1].err
        /\ mc[req[c1].key] = [ci |-> req[c1].ci, ttl |-> ContainerInfoTTL]
        /\ req[c2].op = "GetContainerInfo" /\ req[c2].pc = "returned"
        /\ req[c2].mcHit
        /\ req[c2].key = req[c1].key

\* ------------------------------------------- object calls of the facade
\* client c's object call has a GetContainerInfo that failed on a non-2xx HEAD
HeadFailed(c) ==
    /\ req[c].op \in ObjectOps
    /\ req[c].err
    /\ req[c].st \div 100 # 2

\* C21: when the lookup misses both tiers and the HEAD answers non-2xx,
\* GetContainerInfo returns an error carrying that status, none of the call's
\* steps writes the local map or the shared cache, and the object call
\* returns a stub 500 without a request to an object server.
C21_HeadErrorGives500 ==
    /\ [](\A c \in Clients :
             HeadFailed(c) =>
                 /\ req[c].head /\ ~req[c].lcHit /\ ~req[c].mcHit
                 /\ req[c].st \in HeadStatuses
                 /\ req[c].ci = NoInfo
                 /\ req[c].pc \in {"client", "returned"}
                 /\ ~req[c].sent
                 /\ req[c].pc = "returned" =>
                       req[c].resp = ResponseStub(StatusInternalServerError,
                                                  ErrorLine(req[c].op)))
    /\ [][\A c \in Clients :
             (req'[c] # req[c] /\ HeadFailed(c)') => (lc' = lc /\ mc' = mc)]_vars

C21_Witness ==
    \E c \in Clients :
        /\ req[c].op = "PutObject"
        /\ req[c].pc = "returned"
        /\ req[c].err
        /\ req[c].st = 404
        /\ req[c].resp = ResponseStub(StatusInternalServerError, 712)
        /\ ~req[c].sent
        /\ mcOn
        /\ mc[req[c].key] = NoEntry
        /\ lc[c][req[c].key] = NoInfo

\* ----------------------------------------------------- container PUT
\* the backend requests built so far
Built == UNION {{built[i][k] : k \in 1..Len(built[i])} : i \in Workers}
\* the policy named by X-Storage-Policy (the names of a list differ)
Named == {k \in 1..Len(policyList) : policyList[k].Name = headers.policy}
Rejected == Named = {} \/ \E k \in Named : policyList[k].Deprecated

\* C23: for a container PUT with X-Storage-Policy, when no policy has that
\* name or the policy is deprecated PutContainer returns a stub 400 and builds
\* no backend request; otherwise every backend request carries the named
\* policy's index in X-Backend-Storage-Policy-Index.
C23_PolicyResolved ==
    (mode = "policy" /\ kpc # "new" /\ headers.policy # "") =>
        IF Rejected
        THEN /\ kpc = "returned"
             /\ ret.kind = "stub" /\ ret.status = 400
             /\ Built = {}
        ELSE /\ \A r \in Built :
                   \E k \in Named : r.index = Itoa(policyList[k].Index)
             /\ ~(ret.kind = "stub" /\ ret.status = 400)

C23_Witness ==
    /\ mode = "policy"
    /\ headers.policy = "silver"
    /\ headers.index = <<"7">>
    /\ ~Rejected
    /\ kpc = "returned"
    /\ replicaCount = 3
    /\ \A i \in Workers : Len(built[i]) >= 1
    /\ \E i \in Workers : Len(built[i]) = 2
    /\ <<"1">> \in {r.index : r \in Built}

\* C24 (as stated): for a container PUT without X-Storage-Policy, every
\* backend request carries the default policy's index in
\* X-Backend-Storage-Policy-Index.
C24_DefaultIndexSent ==
    (mode = "policy" /\ headers.policy = "") =>
        \A r \in Built : r.index = Itoa(Default(policyList))

\* C24 (amended): for a container PUT without X-Storage-Policy, every backend
\* request carries -1 in X-Backend-Storage-Policy-Index and the default
\* policy's index in X-Backend-Storage-Policy-Default, and the call is never
\* rejected with 400.
C24_DefaultLeftToBackend ==
    (mode = "policy" /\ headers.policy = "") =>
        /\ \A r \in Built :
              /\ r.index = <<"-", "1">>
              /\ r.default = Itoa(Default(policyList))
              /\ r.policy = ""
        /\ ~(ret.kind = "stub" /\ ret.status = 400)
        /\ kpc # "new" => policyIndex = -1

C24_Witness ==
    /\ mode = "policy"
    /\ headers.policy = ""
    /\ headers.index = <<"7">>
    /\ Default(policyList) = 1
    /\ \E k \in 1..Len(policyList) : policyList[k].Default /\ policyList[k].Deprecated
    /\ kpc = "returned"
    /\ replicaCount = 3
    /\ \A i \in Workers : Len(built[i]) >= 1
    /\ ret = Backend(201, 524)

\* ------------------------------------------------------ S3 middleware
\* the middleware stashed an S3AuthInfo for this request
Stashed == apc = "served" /\ ctx.S3Auth.by = "ServeHTTP"
\* the header has a value (http.Header.Get yields a non-empty string)
Present(name) == Get(request.Header, name) # <<>>
\* the pieces of the raw query between the "&"
Tokens ==
    LET q == request.RawQuery
        cuts == {0, Len(q) + 1} \cup {k \in 1..Len(q) : q[k] = "&"}
    IN  {<<a, b>> \in cuts \X cuts : a < b /\ \A c \in cuts : ~(a < c /\ c < b)}
\* how many tokens of the raw query are exactly the sub-resource name n
Occurs(n) ==
    Cardinality({t \in Tokens : t[2] = t[1] + 2 /\ request.RawQuery[t[1] + 1] = n})
Repeat(x, n) == [k \in 1..n |-> x]
\* the sub-resources of the raw query, in byte order, joined by "&"
SubresourceString ==
    LET all == Repeat("acl", Occurs("acl")) \o Repeat("partNumber", Occurs("partNumber"))
    IN  [k \in 1..(2 * Len(all) - 1) |-> IF k % 2 = 1 THEN all[(k + 1) \div 2] ELSE "&"]
\* the lines of the values of header name, under its lower-case name
Lines(name, lower) ==
    LET vs == request.Header[name]
    IN  [k \in 1..(Len(lower) + 3) * Len(vs) |->
            LET p == ((k - 1) % (Len(lower) + 3)) + 1
                v == vs[((k - 1) \div (Len(lower) + 3)) + 1]
            IN  IF p <= Len(lower) THEN lower[p]
                ELSE IF p = Len(lower) + 1 THEN ":"
                ELSE IF p = Len(lower) + 2 THEN v[1] ELSE "\n"]

\* C25: the string-to-sign is, in order: method, Content-MD5, Content-Type,
\* then an empty line if x-amz-date is present (has a value) else the Date
\* value, then one line lowercased-name:value per value of each x-amz-* header
\* in sorted header-name order, then the path, then, if some raw query token
\* between "&" is exactly a sub-resource name, "?" and those tokens sorted and
\* joined by "&"; a token with a value (partNumber=2) is dropped.
C25_StringToSign ==
    (Stashed /\ request \in SignedRequests) =>
        ctx.S3Auth.StringToSign =
            <<request.Method, "\n">>
            \o Get(request.Header, ContentMD5) \o <<"\n">>
            \o Get(request.Header, ContentType) \o <<"\n">>
            \o (IF Present(XAmzDate) THEN <<>> ELSE Get(request.Header, Date))
            \o <<"\n">>
            \o Lines(XAmzAcl, <<"x-amz-", "acl">>)
            \o (IF Present(XAmzDate) THEN Lines(XAmzDate, <<"x-amz-", "date">>)
                ELSE IF request.Header[XAmzDate] # <<>>
                THEN <<"x-amz-", "date", ":", "\n">> ELSE <<>>)
            \o Lines(XAmzMetaA, <<"x-amz-", "meta-a">>)
            \o <<request.Path>>
            \o (IF SubresourceString = <<>> THEN <<>>
                ELSE <<"?">> \o SubresourceString)

C25_Witness ==
    /\ Stashed
    /\ request.RawQuery = <<"partNumber", "=2", "&", "acl">>
    /\ request.Header[XAmzMetaA] = << <<"v1">>, <<"v2">> >>
    /\ ctx.S3Auth.StringToSign =
          <<"PUT", "\n", "md5", "\n", "text/plain", "\n", "\n",
            "x-amz-", "acl", ":", "public-read", "\n",
            "x-amz-", "date", ":", "amzdate", "\n",
            "x-amz-", "meta-a", ":", "v1", "\n",
            "x-amz-", "meta-a", ":", "v2", "\n",
            "/bucket/key", "?", "acl">>

\* the Authorization header is there and holds no ":"
NoColon ==
    /\ request.Authorization # <<>>
    /\ \A k \in 1..Len(request.Authorization) : request.Authorization[k] # ":"

\* C26: when the credential string has no ":" (Authorization: AWS nocolon),
\* the middleware installs an authorizer that answers (false, 403) to every
\* request, stashes no S3AuthInfo, and calls the next handler exactly once.
C26_MalformedDenied ==
    (apc = "served" /\ NoColon) =>
        /\ ctx.Authorize = "denyAll"
        /\ \A r \in CredentialRequests : denyAll(r) = <<FALSE, StatusForbidden>>
        /\ ctx.S3Auth.by # "ServeHTTP"
        /\ ctx.S3Auth.StringToSign = <<>>
        /\ nextCalls = 1

C26_Witness ==
    /\ apc = "served"
    /\ request.Authorization = <<"AWS ", "nocolon">>
    /\ request.Query.AWSAccessKeyId = <<"K">>
    /\ request.Query.Signature = <<"S">>
    /\ ctx.Authorize = "denyAll"
    /\ ctx.S3Auth.by = "none"
    /\ nextCalls = 1

\* the request has no Authorization header and carries the query parameters
\* AWSAccessKeyId and Signature, and no S3AuthInfo was stashed before
QueryCredentials ==
    /\ request.Authorization = <<>>
    /\ request.Query.AWSAccessKeyId # <<>>
    /\ request.Query.Signature # <<>>
    /\ ctx.S3Auth.by # "prior"

\* C27: for a request with no Authorization header and non-empty query
\* parameters AWSAccessKeyId = K and Signature = S, the middleware stashes an
\* S3AuthInfo with Key K, Signature S and the string-to-sign and calls the next
\* handler without installing the denying authorizer, whether or not the
\* form was parsed before the middleware ran.
C27_QueryCredentialsStashed ==
    (apc = "served" /\ QueryCredentials) =>
        /\ ctx.S3Auth = S3AuthInfo("ServeHTTP", request.Query.AWSAccessKeyId,
                                   request.Query.Signature, stringToSign(request))
        /\ ctx.Authorize # "denyAll"
        /\ nextCalls = 1

\* ------------------------------------------- streaming PUT: the barrier
\* worker i has left its request loop: it handed over a writer, holds a
\* non-5xx response, or found the handoff iterator empty
Settled(i) ==
    /\ wpc[i] \in {"await", "publish", "done"}
    /\ \/ wwriter[i]
       \/ wresp[i] # NoResponse /\ ~IsErrorStatus(wresp[i])
       \/ wresp[i] = NoResponse /\ more = 0 /\ wpc[i] = "done"

\* C29: the coordinator reads the writer list, evaluates the readiness check
\* and reads the first byte of the source only after every worker has handed
\* over a writer, obtained a non-5xx response or exhausted its handoffs, and
\* no worker adds a writer once the barrier is released.
C29_StartBarrier ==
    /\ []((PastBarrier \/ copied > 0 \/ ret = ResponseStub(StatusServiceUnavailable, 895))
            => \A i \in Workers : Settled(i))
    /\ [][(ppc = "wait" /\ ppc' # "wait") => \A i \in Workers : Settled(i)]_vars
    /\ [][(BarrierReleased \/ PastBarrier)
             => (writers' = writers /\ wwriter' = wwriter)]_vars

C29_Witness ==
    /\ replicaCount = 3
    /\ ppc = "copy"
    /\ copied = 1
    /\ \E i, j, k \in Workers :
          /\ writers = <<i>>
          /\ ~wwriter[j] /\ wresp[j] = 201
          /\ ~wwriter[k] /\ wresp[k] = NoResponse /\ wpc[k] = "done"

\* the workers that hold a non-5xx response
HoldNon5xx == {i \in Workers : wresp[i] # NoResponse /\ ~IsErrorStatus(wresp[i])}

\* C30: when, after the start barrier, the number of ready writers plus the
\* number of workers holding a non-5xx response is below q, putObject returns
\* a stub 503 and no byte of the source has been read or sent to a backend;
\* otherwise the copy and the quorum decision loop run.
C30_ReadinessCheck ==
    /\ [][(ppc = "wait" /\ ppc' # "wait") =>
             IF Len(writers) + Cardinality(HoldNon5xx) < Quorum(replicaCount)
             THEN /\ ppc' = "returned"
                  /\ ret' = ResponseStub(StatusServiceUnavailable, 895)
             ELSE ppc' = "copy"]_vars
    /\ [](ret = ResponseStub(StatusServiceUnavailable, 895) =>
             copied = 0 /\ \A i \in Workers : pipe[i] = <<>>)

\* --------------------------------------- streaming PUT: the workers' timer
\* the step in which worker i's responseTimeout fires and it closes its writer
TimeoutClose(i) == wwriter[i] /\ wpc[i] = "await" /\ wpc'[i] = "done"

\* C31: the response deadline of a worker that holds a writer starts once the
\* body broadcast is over: no worker closes its writer on timeout while the
\* coordinator is copying the source to the writers.
C31_DeadlineAfterBroadcast ==
    [][\A i \in Workers :
          TimeoutClose(i) => ~(ppc = "copy" /\ copied < Len(src))]_vars

\* ------------------------------------------------- the workers' request loop
\* the step in which worker i starts a request to another device
NextDevice(i) == wdev[i] >= 1 /\ wdev'[i] # wdev[i]
\* worker i holds a response that is not an error
HoldsNon5xx(i) == wresp[i] # NoResponse /\ ~IsErrorStatus(wresp[i])
\* the step in which worker i's response reaches the dispatcher's channel
Publishes(i) == wpc[i] = "publish" /\ wpc'[i] = "done"

\* C32: a worker starts a request to another device only in the step in which
\* its current device produced a transport error or a status >= 500 while it
\* held neither a writer nor a response; once it holds a writer or a non-5xx
\* response it contacts no other device; and a 5xx it got before it held a
\* writer is neither kept nor published.
C32_RetryOnlyOnError ==
    /\ [][\A i \in Workers : NextDevice(i) =>
             /\ wdev'[i] = wdev[i] + 1
             /\ wlast'[i] # NoResponse /\ IsErrorStatus(wlast'[i])
             /\ wpc[i] = "select" /\ ~wwriter[i] /\ wresp[i] = NoResponse]_vars
    /\ [][\A i \in Workers :
             (wwriter[i] \/ HoldsNon5xx(i)) => wdev'[i] = wdev[i]]_vars
    /\ [](\A i \in Workers : (wwriter[i] \/ HoldsNon5xx(i)) => wpc[i] # "select")
    /\ [](\A i \in Workers :
             (wresp[i] # NoResponse /\ IsErrorStatus(wresp[i])) => wwriter[i])
    /\ [][\A i \in Workers :
             (Publishes(i) /\ ~wwriter[i]) =>
                 /\ ~IsErrorStatus(wresp[i])
                 /\ wresp[i] = wlast[i]
                 /\ responses' = Append(responses, wresp[i])]_vars

\* one worker moved to a handoff after an error and got a 201 there, another
\* handed over a writer and its request then ended with an error, published
C32_Witness ==
    /\ replicaCount = 3
    /\ \E i, j \in Workers :
          /\ wdev[i] = 2 /\ ~wwriter[i] /\ wresp[i] = 201 /\ wpc[i] = "done"
          /\ wdev[j] = 1 /\ wwriter[j] /\ wresp[j] = StatusInternalServerError
          /\ wpc[j] = "done"
    /\ 201 \in Range(responses) /\ StatusInternalServerError \in Range(responses)

\* ------------------------------------------------ listing-update headers
\* the comma-separated items of a header value
RECURSIVE Items(_, _)
Items(s, cur) ==
    IF s = <<>> THEN <<cur>>
    ELSE IF s[1] = "," THEN <<cur>> \o Items(Tail(s), <<>>)
    ELSE Items(Tail(s), Append(cur, s[1]))
\* the positions i, i+R, i+2R, ... of the device list, counted from 0
Striped(i) ==
    [k \in 1..((Len(devices) - i + replicaCount - 1) \div replicaCount) |->
        i + (k - 1) * replicaCount]
\* the positions of the devices the headers of worker index i name: item k of
\* -Host and item k of -Device are those of one device
NamedBy(i) ==
    IF ~reqHeader[i].set THEN {}
    ELSE LET hosts == Items(reqHeader[i].Host, <<>>)
             names == Items(reqHeader[i].Device, <<>>)
         IN  {p \in 0..(Len(devices) - 1) :
                 \E k \in 1..Len(hosts) :
                    /\ k <= Len(names)
                    /\ hosts[k] = <<devices[p + 1].Ip, ":">> \o Itoa(devices[p + 1].Port)
                    /\ names[k] = <<devices[p + 1].Device>>}

\* C33: the headers of worker index i name the devices at positions i, i+R,
\* i+2R, ... of the listing-device list, -Host and -Device item by item in
\* that order; no header is set when i >= |D|; and over i = 0..R-1 the named
\* sets are pairwise disjoint and cover the list.
C33_Striping ==
    /\ \A i \in updated :
          IF i < Len(devices)
          THEN /\ reqHeader[i].set
               /\ Items(reqHeader[i].Host, <<>>) =
                     [k \in 1..Len(Striped(i)) |->
                         <<devices[Striped(i)[k] + 1].Ip, ":">>
                             \o Itoa(devices[Striped(i)[k] + 1].Port)]
               /\ Items(reqHeader[i].Device, <<>>) =
                     [k \in 1..Len(Striped(i)) |->
                         <<devices[Striped(i)[k] + 1].Device>>]
               /\ NamedBy(i) = {Striped(i)[k] : k \in 1..Len(Striped(i))}
          ELSE reqHeader[i] = NoUpdateHeaders
    /\ updated = 0..(replicaCount - 1) =>
          /\ \A i, j \in updated : i # j => NamedBy(i) \cap NamedBy(j) = {}
          /\ UNION {NamedBy(i) : i \in updated} = 0..(Len(devices) - 1)

\* four listing devices over three replicas: index 0 names two devices, and
\* two devices over three replicas leave index 2 without headers
C33_Witness ==
    /\ replicaCount = 3
    /\ Len(devices) = 4
    /\ updated = {0, 1, 2}
    /\ NamedBy(0) = {0, 3}
    /\ Len(Items(reqHeader[0].Device, <<>>)) = 2
    /\ NamedBy(1) = {1}
    /\ NamedBy(2) = {2}

\* ------------------------------------------------- the class at quorum
\* the status classes whose tally has reached q
AtQuorum == {k \in 0..5 : responseClassCounts[k] >= Quorum(replicaCount)}
\* the dispatch has returned a recorded backend response
ReturnsBackend == Returned /\ ret.kind = "backend"

\* C34 as stated: when a quorum dispatch returns a backend response, exactly
\* one status class has a tally >= q, the class of the response returned.
C34_ExactlyOneClass ==
    ReturnsBackend => AtQuorum = {ret.status \div 100}

\* C34: when a quorum dispatch returns a backend response, the class of that
\* response has a tally >= q; it is the only such class when R is odd, and
\* one of at most two when R is even.
C34_ReturnedClassAtQuorum ==
    ReturnsBackend =>
        /\ (ret.status \div 100) \in AtQuorum
        /\ Cardinality(AtQuorum) <= 2
        /\ replicaCount % 2 = 1 => AtQuorum = {ret.status \div 100}

\* two replicas, q = 1: a 200 and a 404 are both recorded, both classes are
\* at quorum and the 200, recorded first, is returned
C34_Witness ==
    /\ replicaCount = 2
    /\ ReturnsBackend
    /\ responses = <<200, 404>>
    /\ AtQuorum = {2, 4}
    /\ ret.status = 200

\* ------------------------------------ container-info cache: concurrent calls
\* client c has returned from a GetContainerInfo on k that sent a HEAD
FilledBy(c, k) ==
    /\ req[c].op = "GetContainerInfo"
    /\ req[c].key = k
    /\ req[c].head
    /\ req[c].pc = "returned"
\* client c has returned from a mutation of k that changed the container
MutatedBy(c, k) ==
    /\ req[c].op \in Mutations
    /\ req[c].key = k
    /\ req[c].st \div 100 = 2
    /\ req[c].pc = "returned"

\* C35: once a miss-filling GetContainerInfo on a container by one request
\* and a mutation of that container by another request have both returned,
\* the shared cache holds no entry for the container or one that shows the
\* container as the mutation left it, never the result of a HEAD answered
\* before the mutation.
C35_NoStaleEntry ==
    \A c1, c2 \in Clients, k \in Keys :
        (c1 # c2 /\ mcOn /\ FilledBy(c1, k) /\ MutatedBy(c2, k)) =>
            (mc[k] = NoEntry \/ mc[k].ci = backend[k])

\* ------------------------------------- streaming PUT: the fate of the writers
\* C36: every writer a worker handed over is eventually closed, whatever
\* putObject returns and whether or not the backend's response reaches the
\* worker before its deadline.
C36_WritersEventuallyClosed ==
    \A i \in 1..MaxReplicas :
        (i <= replicaCount /\ wwriter[i]) ~> (i <= replicaCount /\ pclosed[i])

====
